---- MODULE Spec2Model ----
(***************************************************************************)
(* nbdns: the upstream validator (Upstream.IsValidMsg), the rule matcher   *)
(* (utils.ParseRules / utils.HasMatchedRule), the routing step             *)
(* (Handler.matchedUpstreams) and the three racing strategies of           *)
(* internal/handler/handler.go, with the merge of Handler.exchange and the *)
(* reply of Handler.HandleDnsMsg; the built-in cache (key, lifetime, fresh *)
(* hit, stale fallback, validateResponse) over the two BadgerCache stores  *)
(* of the sources, the JSON one and the wire-format one; the cleaning of   *)
(* the request (Handler.removeEDNS), the private-range predicate of the    *)
(* tests (isPrivateIP) and Upstream.Exchange over the connection pool of a *)
(* tcp or tcp-tls upstream (dnsExchangeWithConn).                          *)
(*                                                                         *)
(* Strings that the code splits on "." are represented by the result of    *)
(* strings.Split(s, "."): "www.bing.com." is <<"www","bing","com","">>,    *)
(* the empty string is <<"">>.                                             *)
(***************************************************************************)
EXTENDS Integers, Sequences, FiniteSets, TLC

\* ------------------------------------------------------------------ bounds

\* Number of configured upstreams of the handler.
MaxUp == 3

\* Longest answer section of a message handed to IsValidMsg.
MaxAns == 2

\* Number of requests handed to a caching handler.
MaxReq == 2

\* Number of times the clock advances between them.
MaxTick == 2

\* Longest list of patterns handed to ParseRules.
MaxRules == 2

\* Number of concurrent Exchange calls on one tcp or tcp-tls upstream.
MaxCalls == 3

\* --------------------------------------------------------------- constants

StrategyFullest == 1

StrategyFastest == 2

StrategyAnyResult == 3

Strategies == {StrategyFullest, StrategyFastest, StrategyAnyResult}

\* ------------------------------------------------------------ DNS messages

\* Addresses. NilIP is the net.IP(nil) of an address record without rdata,
\* for which the membership query returns an error.
NilIP == "nil"

V4 == {"1.0.0.1", "8.8.8.8", "10.0.0.5"}

V6 == {"fd00::1", "2001:4860:4860::8888"}

\* The addresses of the universe that lie in 10/8, 172.16/12, 192.168/16 or
\* fc00::/7.
PrivateIPs == {"10.0.0.5", "fd00::1"}

\* The question names of the universe, split on ".".
NameBing == <<"www", "bing", "com", "">>

NameOnion == <<"abc", "onion", "">>

\* strings.Split("", "."): the name of a message without question.
NameEmpty == <<"">>

\* A resource record: owner, type and rdata (the address of an A/AAAA, the
\* target of a CNAME).
RR(name, type, data) == [Name |-> name, Rrtype |-> type, Data |-> data]

\* A resource record with its TTL.
RRTtl(name, type, data, ttl) ==
    [Name |-> name, Rrtype |-> type, Data |-> data, Ttl |-> ttl]

\* *dns.Msg. Question is a sequence of at most one name and Qtype the type of
\* that question (the class is IN throughout); Answer, Ns and Extra are the
\* three record sections; nil marks the nil pointer.
DnsMsg(q, qtype, rcode, answer, ns, extra) ==
    [nil |-> FALSE, Rcode |-> rcode, Question |-> q, Qtype |-> qtype,
     Answer |-> answer, Ns |-> ns, Extra |-> extra]

\* A message with a question of type A and an answer section only.
Msg(q, rcode, answer) == DnsMsg(q, "A", rcode, answer, <<>>, <<>>)

NoMsg ==
    [nil |-> TRUE, Rcode |-> "", Question |-> <<>>, Qtype |-> "A",
     Answer |-> <<>>, Ns |-> <<>>, Extra |-> <<>>]

\* ---------------------------------------------------------- private ranges

\* An address as isPrivateIP sees it: the family and the first two bytes
\* (10.1.x.x is Addr(4, 10, 1), fe80:: is Addr(6, 254, 128)); NoAddr is
\* net.IP(nil).
Addr(fam, b1, b2) == [fam |-> fam, b1 |-> b1, b2 |-> b2]

NoAddr == [fam |-> 0, b1 |-> 0, b2 |-> 0]

\* A network: the family, the first two bytes and the prefix length.
Net(fam, b1, b2, len) == [fam |-> fam, b1 |-> b1, b2 |-> b2, len |-> len]

\* 10.0.0.0/8, 172.16.0.0/12, 192.168.0.0/16 and fc00::/7.
PrivateNets ==
    {Net(4, 10, 0, 8), Net(4, 172, 16, 12), Net(4, 192, 168, 16),
     Net(6, 252, 0, 7)}

\* The ranges with 172.16.0.0/16 in the place of 172.16.0.0/12.
PrivateNets_Slash16 ==
    {Net(4, 10, 0, 8), Net(4, 172, 16, 16), Net(4, 192, 168, 16),
     Net(6, 252, 0, 7)}

\* The first len bits of the two bytes b1, b2 (len is 16 at most).
prefixBits(b1, b2, len) == (b1 * 256 + b2) \div (2 ^ (16 - len))

\* Address a lies in network n.
inNet(a, n) ==
    /\ a.fam = n.fam
    /\ prefixBits(a.b1, a.b2, n.len) = prefixBits(n.b1, n.b2, n.len)

\* A predicate with the second range cut down to 172.16.0.0/16.
isPrivateIP_Slash16(a) ==
    a # NoAddr /\ \E n \in PrivateNets_Slash16 : inNet(a, n)

\* isPrivateIP: the address is not nil and lies in one of the private
\* ranges.
isPrivateIP(a) == a # NoAddr /\ \E n \in PrivateNets : inNet(a, n)

\* ------------------------------------------------------------ rule matcher

\* A ParseRules that keeps the empty pattern: it gets its dot like any other.
RECURSIVE ParseRules_KeepsEmpty(_)
ParseRules_KeepsEmpty(rulesRaw) ==
    IF rulesRaw = <<>> THEN <<>>
    ELSE LET r == Head(rulesRaw)
             rest == ParseRules_KeepsEmpty(Tail(rulesRaw))
         IN  IF r = <<"">> THEN << <<"", "">> >> \o rest
             ELSE IF r[Len(r)] # "" THEN <<Append(r, "")>> \o rest
             ELSE <<r>> \o rest

\* utils.ParseRules: empty patterns are dropped, a pattern without trailing
\* dot gets one ("a.com" -> "a.com." -> <<"a","com","">>).
RECURSIVE ParseRules(_)
ParseRules(rulesRaw) ==
    IF rulesRaw = <<>> THEN <<>>
    ELSE LET r == Head(rulesRaw)
             rest == ParseRules(Tail(rulesRaw))
         IN  IF r = <<"">> THEN rest
             ELSE IF r[Len(r)] # "" THEN <<Append(r, "")>> \o rest
             ELSE <<r>> \o rest

\* The inner loop of utils.HasMatchedRule: rule labels m and domain labels d
\* are aligned from the right; the result is <<i, j, mismatch>> with i, j the
\* (1-based) positions left over and mismatch the "continue OUTER" exit.
RECURSIVE matchLabels(_, _, _, _)
matchLabels(m, d, i, j) ==
    IF i >= 1 /\ j >= 1
    THEN IF m[i] # d[j] /\ m[i] # ""
         THEN <<i, j, TRUE>>
         ELSE matchLabels(m, d, i - 1, j - 1)
    ELSE <<i, j, FALSE>>

\* An iteration that takes the end of the inner loop for a match, whatever
\* is left of the rule.
ruleMatches_IgnoresLeftover(m, d) ==
    LET r == matchLabels(m, d, Len(m), Len(d))
    IN  /\ ~r[3]
        /\ ~(r[2] # 0 /\ r[1] = 0 /\ m[1] # "")

\* An iteration that lost the test of the domain labels left over.
ruleMatches_AnyPrefix(m, d) ==
    LET r == matchLabels(m, d, Len(m), Len(d))
    IN  /\ ~r[3]
        /\ r[1] = 0

\* One iteration of the OUTER loop: the value given to hasMatch by rule m.
ruleMatches(m, d) ==
    LET r == matchLabels(m, d, Len(m), Len(d))
    IN  /\ ~r[3]
        /\ ~(r[2] # 0 /\ r[1] = 0 /\ m[1] # "")
        /\ r[1] = 0

\* utils.HasMatchedRule: the rules are tried in order, the first match ends
\* the loop.
RECURSIVE HasMatchedRule(_, _)
HasMatchedRule(rules, domain) ==
    IF rules = <<>> THEN FALSE
    ELSE IF ruleMatches(Head(rules), domain) THEN TRUE
    ELSE HasMatchedRule(Tail(rules), domain)

\* ------------------------------------------------------------------- state

VARIABLES
    \* model.Config / cidranger.Ranger, shared by every upstream
    blacklist,          \* Config.BlacklistSplited
    ipRanger,           \* the addresses the primary CIDR trie contains
    \* handler.Handler
    strategy,
    commonUpstreams,
    specialUpstreams,
    \* one HandleDnsMsg call
    req,                \* the request message
    pc,                 \* "start", "wait" (in wg.Wait), "done" (returned)
    resp,               \* the message HandleDnsMsg returned
    \* the locals of one race, shared by its goroutines
    matched,            \* matchedUpstreams / preferUpstreams
    msgs,
    wg,                 \* the WaitGroup counter
    finishedCount,
    finished,
    primaryIndex,
    freedomIndex,
    exchanged,          \* per goroutine: what Exchange returned, once it has
    \* one call of Upstream.IsValidMsg on its own
    vpc,                \* "idle", "input", "checked"
    vUp,
    vMsg,
    vValid,
    \* the built-in cache, the clock and the calls of a caching handler
    cacheImpl,          \* "none" (builtInCache is nil), "json" or "wire"
    cache,              \* the key-value store: key -> entry
    now,                \* the clock, in half seconds
    last,               \* the last HandleDnsMsg call and what it did
    probe,              \* what the call in progress got from the cache
    nReq,               \* calls made so far
    nTick,              \* clock advances so far
    \* one call of validateResponse on its own
    rpc,                \* "idle", "input", "checked"
    rReq,
    rResp,
    rValid,
    \* one call of utils.HasMatchedRule on the rules of utils.ParseRules
    mpc,                \* "idle", "input", "checked"
    mRaw,               \* the patterns handed to ParseRules
    mDomain,
    mMatch,
    \* one call of isPrivateIP
    ipc,                \* "idle", "input", "checked"
    ipIn,
    ipPrivate,
    \* the connection pool of a tcp or tcp-tls upstream and its Exchange calls
    calls,              \* per call: its position and what it did
    poolActive,         \* connections borrowed and not handed back
    poolIdle,           \* connections released and not borrowed again
    \* start-up (Config.ReadInConfig, main) and the dials of the upstreams
    bpc,                \* "idle", "start", "read", "panic", "serving"
    bCfg,               \* config.json: Bootstrap, Upstreams, SocksProxy
    bErr,               \* the error ReadInConfig returned, "" for nil
    bBoot,              \* config.Bootstrap after ReadInConfig and main
    bUps,               \* config.Upstreams after ReadInConfig and main
    bHandlers,          \* the handlers NewHandler has built
    bDialed,            \* the upstreams that have dialled their server
    lookups,            \* the LookupIP calls in progress, innermost last
    \* one request to the DoH endpoint
    dpc,                \* "idle", "input", "done"
    dSrv,               \* the DoHServer: username, password
    dReq,               \* the HTTP request
    dStatus,            \* the status code of the response
    dInvoked,           \* what s.handler returned, call by call
    \* uniqueAnswer applied once and twice
    upc,                \* "idle", "input", "checked"
    uIn,
    uOnce,
    uTwice

cfgVars == <<blacklist, ipRanger, strategy, commonUpstreams, specialUpstreams>>

raceVars == <<req, pc, resp, matched, msgs, wg, finishedCount, finished,
              primaryIndex, freedomIndex, exchanged>>

validVars == <<vpc, vUp, vMsg, vValid>>

cacheVars == <<cacheImpl, cache, now, last, probe, nReq, nTick>>

respVars == <<rpc, rReq, rResp, rValid>>

ruleVars == <<mpc, mRaw, mDomain, mMatch>>

ipVars == <<ipc, ipIn, ipPrivate>>

connVars == <<calls, poolActive, poolIdle>>

bootVars == <<bpc, bCfg, bErr, bBoot, bUps, bHandlers, bDialed, lookups>>

dohVars == <<dpc, dSrv, dReq, dStatus, dInvoked>>

dedupVars == <<upc, uIn, uOnce, uTwice>>

\* The variables of start-up, of the DoH endpoint and of uniqueAnswer.
edgeVars == <<bootVars, dohVars, dedupVars>>

\* The variables of the specifications of one function or one component.
unitVars == <<respVars, ruleVars, ipVars, connVars, edgeVars>>

vars == <<cfgVars, raceVars, validVars, cacheVars, unitVars>>

\* ---------------------------------------------------------------- upstream

\* model.Upstream: the fields the handler reads. Address identifies it.
Upstream(addr, isPrimary, match) ==
    [Address |-> addr, IsPrimary |-> isPrimary, Match |-> match]

\* Upstream.IsMatch, over the rules Upstream.Init prepared from Match.
IsMatch(up, domain) == HasMatchedRule(ParseRules(up.Match), domain)

\* model.GetDomainNameFromDnsMsg
GetDomainNameFromDnsMsg(msg) ==
    IF msg.nil \/ Len(msg.Question) = 0 THEN NameEmpty ELSE msg.Question[1]

\* cidranger.Ranger.Contains as IsValidMsg uses it: <<contained, err>>.
Contains(ranger, ip) ==
    IF ip = NilIP THEN <<FALSE, TRUE>> ELSE <<ip \in ranger, FALSE>>

\* The loop of a validator that lost the check "the server is primary but
\* the address is not".
RECURSIVE isValidMsgNoZoneFrom(_, _, _, _)
isValidMsgNoZoneFrom(up, r, inBlacklist, i) ==
    IF i > Len(r.Answer) THEN ~up.IsPrimary \/ Len(r.Answer) > 0
    ELSE IF r.Answer[i].Rrtype \notin {"A", "AAAA"}
         THEN isValidMsgNoZoneFrom(up, r, inBlacklist, i + 1)
    ELSE LET c == Contains(ipRanger, r.Answer[i].Data)
         IN  IF c[2] THEN isValidMsgNoZoneFrom(up, r, inBlacklist, i + 1)
             ELSE IF inBlacklist /\ c[1] THEN FALSE
             ELSE isValidMsgNoZoneFrom(up, r, inBlacklist, i + 1)

\* The loop of a validator that lost the blacklist check.
RECURSIVE isValidMsgNoBlacklistFrom(_, _, _, _)
isValidMsgNoBlacklistFrom(up, r, inBlacklist, i) ==
    IF i > Len(r.Answer) THEN ~up.IsPrimary \/ Len(r.Answer) > 0
    ELSE IF r.Answer[i].Rrtype \notin {"A", "AAAA"}
         THEN isValidMsgNoBlacklistFrom(up, r, inBlacklist, i + 1)
    ELSE LET c == Contains(ipRanger, r.Answer[i].Data)
         IN  IF c[2] THEN isValidMsgNoBlacklistFrom(up, r, inBlacklist, i + 1)
             ELSE IF up.IsPrimary /\ ~c[1] THEN FALSE
             ELSE isValidMsgNoBlacklistFrom(up, r, inBlacklist, i + 1)

\* The loop of Upstream.IsValidMsg from answer i on, and its final return.
RECURSIVE isValidMsgFrom(_, _, _, _)
isValidMsgFrom(up, r, inBlacklist, i) ==
    IF i > Len(r.Answer) THEN ~up.IsPrimary \/ Len(r.Answer) > 0
    ELSE IF r.Answer[i].Rrtype \notin {"A", "AAAA"}
         THEN isValidMsgFrom(up, r, inBlacklist, i + 1)
    ELSE LET c == Contains(ipRanger, r.Answer[i].Data)
         IN  IF c[2] THEN isValidMsgFrom(up, r, inBlacklist, i + 1)
             ELSE IF inBlacklist /\ c[1] THEN FALSE
             ELSE IF up.IsPrimary /\ ~c[1] THEN FALSE
             ELSE isValidMsgFrom(up, r, inBlacklist, i + 1)

IsValidMsg_NoZoneCheck(up, r) ==
    isValidMsgNoZoneFrom(up, r,
        HasMatchedRule(blacklist, GetDomainNameFromDnsMsg(r)), 1)

IsValidMsg_NoBlacklistCheck(up, r) ==
    isValidMsgNoBlacklistFrom(up, r,
        HasMatchedRule(blacklist, GetDomainNameFromDnsMsg(r)), 1)

\* A validator whose final return forgot the primary upstream without
\* answers.
IsValidMsg_AcceptsEmpty(up, r) ==
    IF Len(r.Answer) = 0 THEN TRUE
    ELSE isValidMsgFrom(up, r,
             HasMatchedRule(blacklist, GetDomainNameFromDnsMsg(r)), 1)

\* Upstream.IsValidMsg
IsValidMsg(up, r) ==
    isValidMsgFrom(up, r,
        HasMatchedRule(blacklist, GetDomainNameFromDnsMsg(r)), 1)

\* ----------------------------------------------------------------- routing

\* The partition NewHandler makes of the configured upstreams.
NewHandler(upstreams) ==
    [commonUpstreams  |-> SelectSeq(upstreams, LAMBDA u : Len(u.Match) = 0),
     specialUpstreams |-> SelectSeq(upstreams, LAMBDA u : Len(u.Match) > 0)]

\* A routing step that queries the common upstreams along with the special
\* ones that match.
matchedUpstreams_PlusCommon(r) ==
    IF Len(r.Question) = 0 THEN commonUpstreams
    ELSE SelectSeq(specialUpstreams, LAMBDA u : IsMatch(u, r.Question[1]))
            \o commonUpstreams

\* Handler.matchedUpstreams
matchedUpstreams(r) ==
    IF Len(r.Question) = 0 THEN commonUpstreams
    ELSE LET m == SelectSeq(specialUpstreams,
                            LAMBDA u : IsMatch(u, r.Question[1]))
         IN  IF Len(m) > 0 THEN m ELSE commonUpstreams

\* ------------------------------------------------------------------- merge

\* A nil entry of a record list.
NilRR == [Name |-> <<>>, Rrtype |-> "nil", Data |-> "", Ttl |-> 0]

\* The key uniqueAnswer builds for a record: owner, type and rdata for the
\* types it knows, the whole record as rr.String() prints it, TTL included,
\* for any other type.
answerKey(rr) ==
    IF rr.Rrtype \in {"A", "AAAA", "CNAME", "MX", "NS", "PTR", "TXT", "SRV",
                      "SOA"}
    THEN <<rr.Name, rr.Rrtype, rr.Data>>
    ELSE <<rr.Name, rr.Rrtype, rr.Data, rr.Ttl>>

\* A loop that forgets a key when it drops a record that has it.
RECURSIVE uniqueFrom_ForgetsOnDrop(_, _, _, _)
uniqueFrom_ForgetsOnDrop(records, i, seen, result) ==
    IF i > Len(records) THEN result
    ELSE IF records[i] = NilRR
         THEN uniqueFrom_ForgetsOnDrop(records, i + 1, seen, result)
    ELSE IF answerKey(records[i]) \in seen
         THEN uniqueFrom_ForgetsOnDrop(records, i + 1,
                                       seen \ {answerKey(records[i])}, result)
    ELSE uniqueFrom_ForgetsOnDrop(records, i + 1,
                                  seen \cup {answerKey(records[i])},
                                  Append(result, records[i]))

\* The loop of uniqueAnswer from record i on: a nil record is skipped, a
\* record whose key was seen is dropped, any other is kept.
RECURSIVE uniqueFrom(_, _, _, _)
uniqueFrom(records, i, seen, result) ==
    IF i > Len(records) THEN result
    ELSE IF records[i] = NilRR
         THEN uniqueFrom(records, i + 1, seen, result)
    ELSE IF answerKey(records[i]) \in seen
         THEN uniqueFrom(records, i + 1, seen, result)
    ELSE uniqueFrom(records, i + 1, seen \cup {answerKey(records[i])},
                    Append(result, records[i]))

\* uniqueAnswer
uniqueAnswer(records) ==
    IF Len(records) = 0 THEN records ELSE uniqueFrom(records, 1, {}, <<>>)

\* The merge loop of Handler.exchange: the first kept message is the base,
\* the answers of the later ones are appended to it.
RECURSIVE mergeFrom(_, _, _)
mergeFrom(ms, i, res) ==
    IF i > Len(ms) THEN res
    ELSE IF ms[i].nil THEN mergeFrom(ms, i + 1, res)
    ELSE IF res.nil THEN mergeFrom(ms, i + 1, ms[i])
    ELSE mergeFrom(ms, i + 1, [res EXCEPT !.Answer = @ \o ms[i].Answer])

\* Handler.exchange after the strategy returned ms.
exchange(ms) ==
    LET res == mergeFrom(ms, 1, NoMsg)
    IN  IF res.nil THEN Msg(<<>>, "SERVFAIL", <<>>)
        ELSE [res EXCEPT !.Answer = uniqueAnswer(@)]

\* dns.Msg.SetReply as HandleDnsMsg calls it on the merged message: the
\* question is copied from the request and the rcode is set to success.
SetReply(m, r) ==
    [m EXCEPT !.Rcode = "NOERROR",
              !.Question = IF Len(r.Question) > 0 THEN <<r.Question[1]>> ELSE @,
              !.Qtype = IF Len(r.Question) > 0 THEN r.Qtype ELSE @]

\* -------------------------------------------------------------- the inputs

\* ".bing.com", the blacklist of the README.
BlacklistRaw == << <<"", "bing", "com">> >>

\* ".onion.", the match list of the README's special upstream.
MatchOnion == << <<"", "onion", "">> >>

\* The primary CIDR set of the races.
RaceRanger == {"1.0.0.1"}

UpstreamConfigs ==
    {ups \in [1..MaxUp -> [IsPrimary : BOOLEAN, Match : {<<>>, MatchOnion}]] : TRUE}

Requests ==
    {Msg(q, "", <<>>) : q \in {<<>>, <<NameBing>>, <<NameOnion>>}}

\* What one Upstream.Exchange can return for request r: a message without
\* error, an error without message, or an error with the message that failed
\* to unpack (doh.Client.Exchange, dns.Conn.ReadMsg).
answerOf(r, ip) ==
    Msg(r.Question, "NOERROR",
        <<RRTtl(GetDomainNameFromDnsMsg(r), "A", ip, 300)>>)

ExchangeResults(r) ==
    {[err |-> FALSE, msg |-> answerOf(r, ip)] : ip \in {"1.0.0.1", "8.8.8.8"}}
        \cup {[err |-> TRUE, msg |-> NoMsg]}
        \cup {[err |-> TRUE, msg |-> answerOf(r, "1.0.0.1")]}

\* A goroutine that does not exist.
Pending ==
    [returned |-> FALSE, err |-> FALSE, msg |-> NoMsg, late |-> FALSE,
     fired |-> FALSE, sent |-> NoMsg]

\* A goroutine whose Exchange has not returned yet: sent is the copy of the
\* request it handed to Exchange.
Started(r) == [Pending EXCEPT !.sent = r]

\* A goroutine after its arrival: what Exchange returned, whether the race
\* had ended before (late) and whether this arrival ended it (fired).
Arrived(res, late, fired) ==
    [returned |-> TRUE, err |-> res.err, msg |-> res.msg, late |-> late,
     fired |-> fired, sent |-> req]

Idx == 1..Len(matched)

\* ------------------------------------------------ names, time and records

\* "WWW.bing.com.", the name of NameBing in another letter case.
NameBingUpper == <<"WWW", "bing", "com", "">>

\* The target of a CNAME of the requested name, and two names that have
\* nothing to do with the request.
NameCdn == <<"cdn", "bing", "net", "">>

NameEvil == <<"evil", "test", "">>

NameEvil2 == <<"evil2", "test", "">>

\* strings.ToLower, on the labels of the universe.
ToLower(name) ==
    [i \in DOMAIN name |->
        CASE name[i] = "WWW" -> "www"
          [] name[i] = "A" -> "a"
          [] name[i] = "COM" -> "com"
          [] OTHER -> name[i]]

\* strings.EqualFold
EqualFold(a, b) == ToLower(a) = ToLower(b)

\* strings.TrimSuffix(name, "."), on the split form: "a.b." is <<"a","b","">>
\* and becomes <<"a","b">>; a name without trailing dot is left alone.
TrimSuffixDot(name) ==
    IF Len(name) >= 2 /\ name[Len(name)] = ""
    THEN SubSeq(name, 1, Len(name) - 1)
    ELSE name

\* The clock counts half seconds: a time.Duration of n seconds, and the
\* whole seconds of a non-negative duration (float64 seconds converted to
\* uint32, time.Time.Unix).
Seconds(n) == 2 * n

WholeSeconds(d) == d \div 2

\* An EDNS0 option of an OPT record, by its kind: dns.EDNS0_SUBNET (the
\* client subnet, ECS) or dns.EDNS0_COOKIE.
EDNS0_SUBNET == [Code |-> "SUBNET"]

EDNS0_COOKIE == [Code |-> "COOKIE"]

\* The OPT pseudo-record: the DO bit is bit 15 of the header's TTL field,
\* the UDP size is the header's class field; Option is its list of options.
OPTWith(do, size, options) ==
    [Name |-> <<"">>, Rrtype |-> "OPT", Data |-> "",
     Ttl |-> IF do THEN 32768 ELSE 0, UDPSize |-> size, Option |-> options]

\* An OPT record without options.
OPT(do, size) == OPTWith(do, size, <<>>)

\* dns.OPT.Do
Do(o) == (o.Ttl \div 32768) % 2 = 1

\* dns.Msg.IsEdns0: the index of the last OPT record of the additional
\* section, 0 for nil.
IsEdns0(m) ==
    LET I == {i \in DOMAIN m.Extra : m.Extra[i].Rrtype = "OPT"}
    IN  IF I = {} THEN 0 ELSE CHOOSE i \in I : \A k \in I : k <= i

\* Handler.removeEDNS: the options of the record IsEdns0 returns lose the
\* client subnets; the other records of the request are not looked at.
removeEDNS(m) ==
    LET opt == IsEdns0(m)
    IN  IF opt = 0 THEN m
        ELSE [m EXCEPT !.Extra[opt].Option =
                          SelectSeq(@, LAMBDA o : o # EDNS0_SUBNET)]

\* ------------------------------------------- the handler's cache functions

\* A key without the DO marker.
getDnsRequestCacheKey_NoDo(m) == <<GetDomainNameFromDnsMsg(m), m.Qtype, "">>

\* getDnsRequestCacheKey: "<name>#<qtype>#<dnssec>", as its three parts.
getDnsRequestCacheKey(m) ==
    <<GetDomainNameFromDnsMsg(m), m.Qtype,
      IF IsEdns0(m) # 0 /\ Do(m.Extra[IsEdns0(m)]) THEN "DO" ELSE "">>

\* getDnsResponseTtl, in seconds.
getDnsResponseTtl(m) ==
    LET ttl == IF Len(m.Answer) > 0 THEN m.Answer[1].Ttl ELSE 0
    IN  IF ttl < 60 THEN 60 ELSE IF ttl > 3600 THEN 3600 ELSE ttl

\* shouldCacheResponse
shouldCacheResponse(m) ==
    IF m.Rcode = "SERVFAIL" THEN FALSE
    ELSE IF m.Rcode = "FORMERR" THEN FALSE
    ELSE m.Rcode = "NOERROR" \/ m.Rcode = "NXDOMAIN"

\* The name validateResponse compares: lower case, without trailing dot.
canonical(name) == ToLower(TrimSuffixDot(name))

\* The first pass of validateResponse: the requested name and the targets of
\* all CNAME records of the answer.
validDomains(rq, rs) ==
    {canonical(rq.Question[1])}
        \cup {canonical(rs.Answer[i].Data) :
                 i \in {j \in DOMAIN rs.Answer :
                           rs.Answer[j].Rrtype = "CNAME"}}

\* validateResponse
validateResponse(rq, rs) ==
    IF rs.nil THEN FALSE
    ELSE IF Len(rq.Question) = 0 \/ Len(rs.Question) = 0 THEN TRUE
    ELSE IF ~EqualFold(rq.Question[1], rs.Question[1]) THEN FALSE
    ELSE IF rq.Qtype # rs.Qtype THEN FALSE
    ELSE \A i \in DOMAIN rs.Answer :
            LET answerDomain == canonical(rs.Answer[i].Name)
            IN  ~(/\ answerDomain \notin validDomains(rq, rs)
                  /\ rs.Answer[i].Rrtype = "CNAME"
                  /\ answerDomain # canonical(rq.Question[1]))

\* updateRRs of replyUpdateTtl: every record gets the TTL.
updateRRs(rrs, ttl) == [i \in DOMAIN rrs |-> [rrs[i] EXCEPT !.Ttl = ttl]]

\* replyUpdateTtl: the records of the answer and authority sections and the
\* records of the additional section other than OPT get the TTL; an OPT
\* record keeps its TTL field and gets the UDP size of the request's OPT, if
\* the request has one; SetReply. (The universe has no RRSIG record, the
\* only kind of record replyUpdateTtl drops, and no ECS option.)
replyUpdateTtl(r, rs, ttl) ==
    LET reqOpt == IsEdns0(r)
        extra == [i \in DOMAIN rs.Extra |->
                     IF rs.Extra[i].Rrtype = "OPT"
                     THEN IF reqOpt # 0
                          THEN [rs.Extra[i] EXCEPT
                                   !.UDPSize = r.Extra[reqOpt].UDPSize]
                          ELSE rs.Extra[i]
                     ELSE [rs.Extra[i] EXCEPT !.Ttl = ttl]]
    IN  SetReply([rs EXCEPT !.Answer = updateRRs(@, ttl),
                              !.Ns = updateRRs(@, ttl),
                              !.Extra = extra], r)

\* A TTL for a fresh hit that ignores the time the entry has left.
freshTtl_Constant(expires, t) == 12

\* uint32(time.Until(v.Expires).Seconds()) of the fresh hit.
freshTtl(expires, t) == WholeSeconds(expires - t)

\* A gate that stores every cacheable reply, validated or not.
shouldStore_NoValidation(r, rs) == shouldCacheResponse(rs)

\* The condition under which HandleDnsMsg stores the reply.
shouldStore(r, rs) == shouldCacheResponse(rs) /\ validateResponse(r, rs)

\* ------------------------------------------------------ the cache store

\* No entry.
NoEntry ==
    [written |-> FALSE, deleted |-> FALSE, Msg |-> NoMsg, Expires |-> 0,
     until |-> 0, at |-> 0, by |-> NoMsg, from |-> ""]

\* The entry a Set leaves under a key: cache.CachedMsg (Msg, Expires), the
\* second until which the store keeps it, and, for the record, the time of
\* the Set, the request whose reply it is and the rcode the strategy returned.
Entry(m, expires, until, at, by, from) ==
    [written |-> TRUE, deleted |-> FALSE, Msg |-> m, Expires |-> expires,
     until |-> until, at |-> at, by |-> by, from |-> from]

\* The store with entry e under key.
put(c, key, e) ==
    [k \in DOMAIN c \cup {key} |-> IF k = key THEN e ELSE c[k]]

\* What the store holds under key at time t: an entry that was set, not
\* deleted since, and whose store-level lifetime has not run out.
held(c, key, t) ==
    IF key \in DOMAIN c /\ ~c[key].deleted /\ WholeSeconds(t) < c[key].until
    THEN c[key] ELSE NoEntry

\* json.Unmarshal of a marshalled CachedMsg fails when a section of the
\* message holds a record: the sections are slices of the interface dns.RR,
\* into which no JSON object can be decoded.
unmarshalFails(m) == Len(m.Answer) > 0 \/ Len(m.Ns) > 0 \/ Len(m.Extra) > 0

\* BadgerCache.Set of the JSON store.
jsonSet(c, key, m, expires, ttl, t, by, from) ==
    put(c, key, Entry(m, expires, WholeSeconds(t + ttl), t, by, from))

\* BadgerCache.Get of the JSON store at time t: the outcome, the entry and
\* the store it leaves (an entry whose expiry has passed is deleted).
jsonGet(c, key, t) ==
    LET e == held(c, key, t)
    IN  IF ~e.written THEN [ok |-> FALSE, v |-> NoEntry, cache |-> c]
        ELSE IF unmarshalFails(e.Msg)
             THEN [ok |-> FALSE, v |-> NoEntry, cache |-> c]
        ELSE IF t > e.Expires
             THEN [ok |-> FALSE, v |-> NoEntry,
                   cache |-> [c EXCEPT ![key].deleted = TRUE]]
        ELSE [ok |-> TRUE, v |-> e, cache |-> c]

\* BadgerCache.Set of the wire-format store: the expiry is kept as a Unix
\* time in seconds, the message in wire format.
wireSet(c, key, m, expires, ttl, t, by, from) ==
    put(c, key, Entry(m, Seconds(WholeSeconds(expires)),
                      WholeSeconds(t + ttl), t, by, from))

\* A Get that gives the entry it returns another hour in the store.
wireGet_Touch(c, key, t) ==
    LET e == held(c, key, t)
    IN  IF ~e.written THEN [ok |-> FALSE, v |-> NoEntry, cache |-> c]
        ELSE [ok |-> TRUE, v |-> e,
              cache |-> [c EXCEPT ![key].until = WholeSeconds(t) + 3600]]

\* BadgerCache.Get of the wire-format store: whatever the store holds.
wireGet(c, key, t) ==
    LET e == held(c, key, t)
    IN  IF ~e.written THEN [ok |-> FALSE, v |-> NoEntry, cache |-> c]
        ELSE [ok |-> TRUE, v |-> e, cache |-> c]

\* h.builtInCache.Get and h.builtInCache.Set
Get(c, key, t) ==
    IF cacheImpl = "json" THEN jsonGet(c, key, t) ELSE wireGet(c, key, t)

Set(c, key, m, expires, ttl, t, by, from) ==
    IF cacheImpl = "json" THEN jsonSet(c, key, m, expires, ttl, t, by, from)
    ELSE wireSet(c, key, m, expires, ttl, t, by, from)

\* No call was made yet.
NoCall ==
    [done |-> FALSE, req |-> NoMsg, resp |-> NoMsg, at |-> 0,
     served |-> "none", exchanged |-> FALSE, res |-> NoMsg, key |-> <<>>,
     held |-> NoEntry, stored |-> FALSE]

\* The locals cacheKey and respCache of a HandleDnsMsg call that is in
\* h.exchange: the key, what Get returned for it and what was last written
\* under it.
Probe(key, ok, v, e) == [key |-> key, ok |-> ok, v |-> v, held |-> e]

\* No call is in h.exchange.
NoProbe == Probe(<<>>, FALSE, NoEntry, NoEntry)

\* A handler without built-in cache.
CacheIdle ==
    /\ cacheImpl = "none"
    /\ cache = <<>>
    /\ now = 0
    /\ last = NoCall
    /\ probe = NoProbe
    /\ nReq = 0
    /\ nTick = 0

RespIdle ==
    /\ rpc = "idle"
    /\ rReq = NoMsg
    /\ rResp = NoMsg
    /\ rValid = FALSE

RuleIdle ==
    /\ mpc = "idle"
    /\ mRaw = <<>>
    /\ mDomain = <<"">>
    /\ mMatch = FALSE

IpIdle ==
    /\ ipc = "idle"
    /\ ipIn = NoAddr
    /\ ipPrivate = FALSE

\* An upstream without connection pool.
ConnIdle ==
    /\ calls = <<>>
    /\ poolActive = 0
    /\ poolIdle = 0

\* No config is being loaded.
BootIdle ==
    /\ bpc = "idle"
    /\ bCfg = [Bootstrap |-> <<>>, Upstreams |-> <<>>, SocksProxy |-> ""]
    /\ bErr = ""
    /\ bBoot = <<>>
    /\ bUps = <<>>
    /\ bHandlers = {}
    /\ bDialed = {}
    /\ lookups = <<>>

\* No DoH endpoint.
DohIdle ==
    /\ dpc = "idle"
    /\ dSrv = [username |-> "", password |-> ""]
    /\ dReq = [auth |-> <<>>, accept |-> "", dns |-> ""]
    /\ dStatus = 0
    /\ dInvoked = <<>>

DedupIdle ==
    /\ upc = "idle"
    /\ uIn = <<>>
    /\ uOnce = <<>>
    /\ uTwice = <<>>

EdgeIdle == BootIdle /\ DohIdle /\ DedupIdle

\* No function is being checked on its own.
UnitIdle == RespIdle /\ RuleIdle /\ IpIdle /\ ConnIdle /\ EdgeIdle

\* ------------------------------------------------------------------- Init

ValidIdle ==
    /\ vpc = "idle"
    /\ vUp = Upstream(0, FALSE, <<>>)
    /\ vMsg = NoMsg
    /\ vValid = FALSE

RaceIdle ==
    /\ req = NoMsg
    /\ pc = "idle"
    /\ resp = NoMsg
    /\ matched = <<>>
    /\ msgs = <<>>
    /\ wg = 0
    /\ finishedCount = 0
    /\ finished = FALSE
    /\ primaryIndex = <<>>
    /\ freedomIndex = <<>>
    /\ exchanged = <<>>

\* A handler built by NewHandler from a validated config, with the built-in
\* cache disabled, and one request handed to HandleDnsMsg.
Init ==
    /\ blacklist = ParseRules(BlacklistRaw)
    /\ ipRanger = RaceRanger
    /\ strategy \in Strategies
    /\ \E cfg \in UpstreamConfigs :
          LET ups == [i \in 1..MaxUp |->
                         Upstream(i, cfg[i].IsPrimary, cfg[i].Match)]
              h == NewHandler(ups)
          IN  /\ commonUpstreams = h.commonUpstreams
              /\ specialUpstreams = h.specialUpstreams
    /\ req \in Requests
    /\ pc = "start"
    /\ resp = NoMsg
    /\ matched = <<>>
    /\ msgs = <<>>
    /\ wg = 0
    /\ finishedCount = 0
    /\ finished = FALSE
    /\ primaryIndex = <<>>
    /\ freedomIndex = <<>>
    /\ exchanged = <<>>
    /\ ValidIdle
    /\ CacheIdle
    /\ UnitIdle

\* ---------------------------------------------------------------- the race

\* HandleDnsMsg up to wg.Wait of getTheFullestResults: removeEDNS cleans the
\* request in place, the goroutines are started, each with a copy of it, and
\* the latch counts all of them.
getTheFullestResults ==
    /\ pc = "start"
    /\ strategy = StrategyFullest
    /\ req' = removeEDNS(req)
    /\ LET m == matchedUpstreams(req')
       IN  /\ matched' = m
           /\ wg' = Len(m)
           /\ msgs' = [j \in 1..Len(m) |-> NoMsg]
           /\ exchanged' = [j \in 1..Len(m) |-> Started(req')]
    /\ pc' = "wait"
    /\ UNCHANGED <<cfgVars, validVars, cacheVars, unitVars, resp,
                   finishedCount, finished, primaryIndex, freedomIndex>>

\* HandleDnsMsg up to wg.Wait of getTheFastestResults: the latch counts one.
getTheFastestResults ==
    /\ pc = "start"
    /\ strategy = StrategyFastest
    /\ req' = removeEDNS(req)
    /\ LET m == matchedUpstreams(req')
       IN  /\ matched' = m
           /\ msgs' = [j \in 1..Len(m) |-> NoMsg]
           /\ exchanged' = [j \in 1..Len(m) |-> Started(req')]
    /\ wg' = 1
    /\ finishedCount' = 0
    /\ finished' = FALSE
    /\ primaryIndex' = <<>>
    /\ freedomIndex' = <<>>
    /\ pc' = "wait"
    /\ UNCHANGED <<cfgVars, validVars, cacheVars, unitVars, resp>>

\* HandleDnsMsg up to wg.Wait of getAnyResult: the latch counts one.
getAnyResult ==
    /\ pc = "start"
    /\ strategy = StrategyAnyResult
    /\ req' = removeEDNS(req)
    /\ LET m == matchedUpstreams(req')
       IN  /\ matched' = m
           /\ msgs' = [j \in 1..Len(m) |-> NoMsg]
           /\ exchanged' = [j \in 1..Len(m) |-> Started(req')]
    /\ wg' = 1
    /\ finishedCount' = 0
    /\ finished' = FALSE
    /\ pc' = "wait"
    /\ UNCHANGED <<cfgVars, validVars, cacheVars, unitVars, resp,
                   primaryIndex, freedomIndex>>

\* A goroutine that stores every message that came without error.
fullestKeeps_NoValidation(up, res) == ~res.err

\* Whether the goroutine of getTheFullestResults stores res in msgs.
fullestKeeps(up, res) == ~res.err /\ IsValidMsg(up, res.msg)

\* A goroutine that stores its message in the next free place of the
\* vector, as an append would.
fullestSlot_ArrivalOrder(j) ==
    Cardinality({k \in DOMAIN exchanged : exchanged[k].returned}) + 1

\* The place of the vector in which goroutine j of getTheFullestResults
\* stores its message: msgs[j].
fullestSlot(j) == j

\* The goroutine j of getTheFullestResults: Exchange returns res, a message
\* without error that passes IsValidMsg is stored, wg.Done is deferred.
FullestArrive(j) ==
    /\ strategy = StrategyFullest
    /\ pc # "start"
    /\ j \in Idx
    /\ ~exchanged[j].returned
    /\ \E res \in ExchangeResults(req) :
          /\ msgs' = IF fullestKeeps(matched[j], res)
                     THEN [msgs EXCEPT ![fullestSlot(j)] = res.msg]
                     ELSE msgs
          /\ exchanged' = [exchanged EXCEPT ![j] = Arrived(res, FALSE, FALSE)]
    /\ wg' = wg - 1
    /\ UNCHANGED <<cfgVars, validVars, cacheVars, unitVars, req, pc, resp,
                   matched, finishedCount, finished, primaryIndex,
                   freedomIndex>>

\* A goroutine that stores every message that came without error.
fastestKeeps_NoValidation(up, res) == ~res.err

\* Whether the goroutine of getTheFastestResults stores res in msgs.
fastestKeeps(up, res) == ~res.err /\ IsValidMsg(up, res.msg)

\* A straggler test that never sees the race as ended.
stragglerReturns_Never == FALSE

\* A straggler test that only the last arrival of all passes.
stragglerReturns_LastOnly == finished /\ finishedCount + 1 = Len(matched)

\* "if finished { return }" of the goroutines of getTheFastestResults and
\* getAnyResult.
stragglerReturns == finished

\* Exit tests that look at the primary group alone.
fastestExit_PrimaryOnly(count, pIdx, fIdx, ms) ==
    \/ count = Len(matched)
    \/ Len(pIdx) > 0 /\ ~ms[pIdx[1]].nil

\* Exit tests for which a valid answer of a freedom upstream is enough.
fastestExit_FreedomAlone(count, pIdx, fIdx, ms) ==
    \/ count = Len(matched)
    \/ Len(fIdx) > 0
    \/ Len(pIdx) > 0 /\ ~ms[pIdx[1]].nil

\* The exit tests of getTheFastestResults, on the values the arrival left.
fastestExit(count, pIdx, fIdx, ms) ==
    \/ count = Len(matched)
    \/ Len(pIdx) > 0 /\ Len(fIdx) > 0
    \/ Len(pIdx) > 0 /\ (~ms[pIdx[1]].nil \/ Len(fIdx) > 0)

\* The goroutine j of getTheFastestResults, from mutex.Lock to Unlock.
FastestArrive(j) ==
    /\ strategy = StrategyFastest
    /\ pc # "start"
    /\ j \in Idx
    /\ ~exchanged[j].returned
    /\ \E res \in ExchangeResults(req) :
          LET up == matched[j]
              valid == fastestKeeps(up, res)
              pIdx == IF ~res.err /\ up.IsPrimary
                      THEN Append(primaryIndex, j) ELSE primaryIndex
              fIdx == IF valid /\ ~up.IsPrimary
                      THEN Append(freedomIndex, j) ELSE freedomIndex
              ms == IF valid THEN [msgs EXCEPT ![j] = res.msg] ELSE msgs
              exit == fastestExit(finishedCount + 1, pIdx, fIdx, ms)
          IN  /\ finishedCount' = finishedCount + 1
              /\ IF stragglerReturns
                 THEN /\ exchanged' =
                            [exchanged EXCEPT ![j] = Arrived(res, TRUE, FALSE)]
                      /\ UNCHANGED <<msgs, primaryIndex, freedomIndex,
                                     finished, wg>>
                 ELSE /\ primaryIndex' = pIdx
                      /\ freedomIndex' = fIdx
                      /\ msgs' = ms
                      /\ finished' = exit
                      /\ wg' = IF exit THEN wg - 1 ELSE wg
                      /\ exchanged' =
                            [exchanged EXCEPT ![j] = Arrived(res, FALSE, exit)]
    /\ UNCHANGED <<cfgVars, validVars, cacheVars, unitVars, req, pc, resp, matched>>

\* An exit test that forgot the case "every upstream has returned".
anyExit_FirstSuccessOnly(err, count) == ~err

\* The exit test of getAnyResult.
anyExit(err, count) == ~err \/ count = Len(matched)

\* The goroutine j of getAnyResult, from mutex.Lock to Unlock.
AnyArrive(j) ==
    /\ strategy = StrategyAnyResult
    /\ pc # "start"
    /\ j \in Idx
    /\ ~exchanged[j].returned
    /\ \E res \in ExchangeResults(req) :
          LET exit == anyExit(res.err, finishedCount + 1)
          IN  /\ finishedCount' = finishedCount + 1
              /\ IF stragglerReturns
                 THEN /\ exchanged' =
                            [exchanged EXCEPT ![j] = Arrived(res, TRUE, FALSE)]
                      /\ UNCHANGED <<msgs, finished, wg>>
                 ELSE /\ finished' = exit
                      /\ msgs' = IF exit THEN [msgs EXCEPT ![j] = res.msg]
                                 ELSE msgs
                      /\ wg' = IF exit THEN wg - 1 ELSE wg
                      /\ exchanged' =
                            [exchanged EXCEPT ![j] = Arrived(res, FALSE, exit)]
    /\ UNCHANGED <<cfgVars, validVars, cacheVars, unitVars, req, pc, resp,
                   matched, primaryIndex, freedomIndex>>

\* HandleDnsMsg from the return of wg.Wait: the strategy returns msgs,
\* exchange merges them, SetReply, return.
HandleDnsMsgReturn ==
    /\ pc = "wait"
    /\ wg = 0
    /\ resp' = SetReply(exchange(msgs), req)
    /\ pc' = "done"
    /\ UNCHANGED <<cfgVars, validVars, cacheVars, unitVars, req, matched,
                   msgs, wg, finishedCount, finished, primaryIndex,
                   freedomIndex, exchanged>>

Next ==
    \/ getTheFullestResults
    \/ getTheFastestResults
    \/ getAnyResult
    \/ \E j \in Idx : FullestArrive(j)
    \/ \E j \in Idx : FastestArrive(j)
    \/ \E j \in Idx : AnyArrive(j)
    \/ HandleDnsMsgReturn

Spec == Init /\ [][Next]_vars

\* ------------------------------------------- routing and request cleaning

\* ".bing.com.", the match list of a second special upstream.
MatchBing == << <<"", "bing", "com", "">> >>

\* Non-primary upstreams, each common or special for one of the two lists.
RouteConfigs == [1..MaxUp -> {<<>>, MatchOnion, MatchBing}]

\* The requests: without question; without EDNS0; with one OPT record that
\* carries a client subnet and a cookie; with two OPT records, the first of
\* which carries a client subnet.
RouteRequests ==
    {DnsMsg(<<>>, "A", "", <<>>, <<>>, <<>>),
     DnsMsg(<<NameBing>>, "A", "", <<>>, <<>>, <<>>),
     DnsMsg(<<NameOnion>>, "A", "", <<>>, <<>>, <<>>),
     DnsMsg(<<NameOnion>>, "A", "", <<>>, <<>>,
            <<OPTWith(FALSE, 1232, <<EDNS0_SUBNET, EDNS0_COOKIE>>)>>),
     DnsMsg(<<NameBing>>, "A", "", <<>>, <<>>,
            <<OPTWith(FALSE, 1232, <<EDNS0_SUBNET>>),
              OPTWith(FALSE, 512, <<EDNS0_COOKIE>>)>>)}

\* A handler built by NewHandler, with the built-in cache disabled, and one
\* request handed to HandleDnsMsg.
InitRoute ==
    /\ blacklist = ParseRules(BlacklistRaw)
    /\ ipRanger = RaceRanger
    /\ strategy \in Strategies
    /\ \E cfg \in RouteConfigs :
          LET ups == [i \in 1..MaxUp |-> Upstream(i, FALSE, cfg[i])]
              h == NewHandler(ups)
          IN  /\ commonUpstreams = h.commonUpstreams
              /\ specialUpstreams = h.specialUpstreams
    /\ req \in RouteRequests
    /\ pc = "start"
    /\ resp = NoMsg
    /\ matched = <<>>
    /\ msgs = <<>>
    /\ wg = 0
    /\ finishedCount = 0
    /\ finished = FALSE
    /\ primaryIndex = <<>>
    /\ freedomIndex = <<>>
    /\ exchanged = <<>>
    /\ ValidIdle
    /\ CacheIdle
    /\ UnitIdle

SpecRoute == InitRoute /\ [][Next]_vars

\* ------------------------------------------------- IsValidMsg on its own

\* The address records and one non-address record of the universe.
AnswerRRs ==
    {RR(NameBing, "A", ip) : ip \in V4 \cup {NilIP}}
        \cup {RR(NameBing, "AAAA", ip) : ip \in V6 \cup {NilIP}}
        \cup {RR(NameBing, "CNAME", "cdn")}

RECURSIVE SeqsUpTo(_, _)
SeqsUpTo(S, n) ==
    IF n = 0 THEN {<<>>}
    ELSE LET shorter == SeqsUpTo(S, n - 1)
         IN  shorter \cup {Append(s, x) : s \in shorter, x \in S}

InitValid ==
    /\ blacklist = ParseRules(BlacklistRaw)
    /\ ipRanger \in SUBSET (V4 \cup V6)
    /\ strategy = StrategyFullest
    /\ commonUpstreams = <<>>
    /\ specialUpstreams = <<>>
    /\ RaceIdle
    /\ vpc = "input"
    /\ vUp \in {Upstream(1, p, <<>>) : p \in BOOLEAN}
    /\ vMsg \in {Msg(q, "NOERROR", a) :
                    q \in {<<>>, <<NameBing>>, <<NameOnion>>},
                    a \in SeqsUpTo(AnswerRRs, MaxAns)}
    /\ vValid = FALSE
    /\ CacheIdle
    /\ UnitIdle

\* One call vUp.IsValidMsg(vMsg).
CheckValid ==
    /\ vpc = "input"
    /\ vValid' = IsValidMsg(vUp, vMsg)
    /\ vpc' = "checked"
    /\ UNCHANGED <<cfgVars, raceVars, cacheVars, unitVars, vUp, vMsg>>

NextValid == CheckValid

SpecValid == InitValid /\ [][NextValid]_vars

\* ------------------------------------------- HandleDnsMsg with the cache

\* The requests of a caching handler: www.bing.com. A without EDNS0, with
\* an OPT record that has the DO bit, and in upper case.
CacheRequests ==
    {DnsMsg(<<NameBing>>, "A", "", <<>>, <<>>, <<>>),
     DnsMsg(<<NameBing>>, "A", "", <<>>, <<>>, <<OPT(TRUE, 1232)>>),
     DnsMsg(<<NameBingUpper>>, "A", "", <<>>, <<>>, <<>>)}

\* An upstream's response to r.
response(r, rcode, answer, ns, extra) ==
    DnsMsg(r.Question, r.Qtype, rcode, answer, ns, extra)

\* The message vectors a strategy can return for r: nothing kept; two
\* answers with different TTLs, the first with authority and additional
\* records; an NXDOMAIN with its SOA; a CNAME of a name that is not the
\* requested one; a FORMERR without records; an answer with a TTL below the
\* floor. (Upstream.Exchange drops the OPT records of every response.)
KeptVectors(r) ==
    LET qname == r.Question[1]
    IN  {<<NoMsg>>,
         <<response(r, "NOERROR",
                    <<RRTtl(qname, "A", "1.0.0.1", 300)>>,
                    <<RRTtl(<<"bing", "com", "">>, "NS", "ns1", 900)>>,
                    <<RRTtl(<<"ns1", "">>, "A", "8.8.8.8", 1200)>>),
           response(r, "NOERROR",
                    <<RRTtl(qname, "A", "8.8.8.8", 100)>>, <<>>, <<>>)>>,
         <<response(r, "NXDOMAIN", <<>>,
                    <<RRTtl(<<"com", "">>, "SOA", "a.gtld", 900)>>, <<>>)>>,
         <<response(r, "NOERROR",
                    <<RRTtl(NameEvil, "CNAME", NameEvil2, 7200),
                      RRTtl(qname, "A", "8.8.8.8", 7200)>>, <<>>, <<>>)>>,
         <<response(r, "FORMERR", <<>>, <<>>, <<>>)>>,
         <<response(r, "NOERROR",
                    <<RRTtl(qname, "A", "8.8.8.8", 30)>>, <<>>, <<>>)>>}

\* By how much the clock advances at a time: half a second, a minute and a
\* second, an hour and 100 seconds.
ClockSteps == {1, Seconds(61), Seconds(3700)}

\* A handler built with one of the two BadgerCache stores, its cache empty.
InitCache ==
    /\ blacklist = ParseRules(BlacklistRaw)
    /\ ipRanger = RaceRanger
    /\ strategy = StrategyFullest
    /\ commonUpstreams = <<>>
    /\ specialUpstreams = <<>>
    /\ RaceIdle
    /\ ValidIdle
    /\ UnitIdle
    /\ cacheImpl \in {"json", "wire"}
    /\ cache = <<>>
    /\ now = 0
    /\ last = NoCall
    /\ probe = NoProbe
    /\ nReq = 0
    /\ nTick = 0

\* What a call leaves in last: the request, the reply, the time, whether
\* the reply was served from the cache ("fresh", "stale") or not ("none"),
\* whether h.exchange was called and what it returned, the cache key, what
\* was last written under that key before the call, and whether the reply
\* was stored.
Call(r, m, served, upstream, res, key, e, stored) ==
    [done |-> TRUE, req |-> r, resp |-> m, at |-> now, served |-> served,
     exchanged |-> upstream, res |-> res, key |-> key, held |-> e,
     stored |-> stored]

\* One call of HandleDnsMsg on a handler with a cache: the probe and the
\* fresh hit, h.exchange (the strategy returns ms), the stale fallback,
\* SetReply, the validation and the Set.
HandleDnsMsg ==
    /\ cacheImpl # "none"
    /\ nReq < MaxReq
    /\ \E r \in CacheRequests : \E ms \in KeptVectors(r) :
          LET cacheKey == getDnsRequestCacheKey(r)
              e == IF cacheKey \in DOMAIN cache THEN cache[cacheKey]
                   ELSE NoEntry
              g == Get(cache, cacheKey, now)
              respCache == g.v.Msg
              hitMsg == replyUpdateTtl(r, respCache,
                                       freshTtl(g.v.Expires, now))
              res == exchange(ms)
              staleMsg == replyUpdateTtl(r, respCache, 12)
              m == SetReply(res, r)
              ttl == getDnsResponseTtl(m)
          IN  IF g.ok /\ g.v.Expires > now /\ Len(hitMsg.Answer) > 0
              THEN /\ cache' = g.cache
                   /\ last' = Call(r, hitMsg, "fresh", FALSE, NoMsg,
                                   cacheKey, e, FALSE)
              ELSE IF res.Rcode = "SERVFAIL" /\ g.ok
                         /\ Len(staleMsg.Answer) > 0
              THEN /\ cache' = g.cache
                   /\ last' = Call(r, staleMsg, "stale", TRUE, res,
                                   cacheKey, e, FALSE)
              ELSE /\ cache' =
                         IF shouldStore(r, m)
                         THEN Set(g.cache, cacheKey, m, now + Seconds(ttl),
                                  Seconds(ttl) + Seconds(3600), now, r,
                                  res.Rcode)
                         ELSE g.cache
                   /\ last' = Call(r, m, "none", TRUE, res, cacheKey, e,
                                   shouldStore(r, m))
    /\ nReq' = nReq + 1
    /\ UNCHANGED <<cfgVars, raceVars, validVars, unitVars, cacheImpl, now,
                   probe, nTick>>

\* Time passes.
Tick ==
    /\ nTick < MaxTick
    /\ \E d \in ClockSteps : now' = now + d
    /\ nTick' = nTick + 1
    /\ UNCHANGED <<cfgVars, raceVars, validVars, unitVars, cacheImpl, cache,
                   last, probe, nReq>>

NextCache == HandleDnsMsg \/ Tick

SpecCache == InitCache /\ [][NextCache]_vars

\* -------------------------------------------- validateResponse on its own

\* The records of the answers handed to validateResponse: an address and a
\* CNAME of the requested name, an address and a CNAME of the CNAME's
\* target, and two CNAMEs of unrelated names that point at each other.
ResponseRRs ==
    {RRTtl(NameBing, "A", "1.0.0.1", 300),
     RRTtl(NameBing, "CNAME", NameCdn, 300),
     RRTtl(NameCdn, "A", "1.0.0.1", 300),
     RRTtl(NameCdn, "CNAME", NameBingUpper, 300),
     RRTtl(NameEvil, "A", "8.8.8.8", 300),
     RRTtl(NameEvil, "CNAME", NameEvil2, 300),
     RRTtl(NameEvil2, "CNAME", NameEvil, 300)}

InitResp ==
    /\ EdgeIdle
    /\ blacklist = ParseRules(BlacklistRaw)
    /\ ipRanger = RaceRanger
    /\ strategy = StrategyFullest
    /\ commonUpstreams = <<>>
    /\ specialUpstreams = <<>>
    /\ RaceIdle
    /\ ValidIdle
    /\ CacheIdle
    /\ rpc = "input"
    /\ rReq \in {DnsMsg(q, "A", "", <<>>, <<>>, <<>>) :
                    q \in {<<>>, <<NameBing>>}}
    /\ rResp \in {DnsMsg(q, t, "NOERROR", a, <<>>, <<>>) :
                     q \in {<<>>, <<NameBing>>, <<NameBingUpper>>,
                            <<NameOnion>>},
                     t \in {"A", "AAAA"},
                     a \in SeqsUpTo(ResponseRRs, MaxAns)}
    /\ rValid = FALSE
    /\ RuleIdle
    /\ IpIdle
    /\ ConnIdle

\* One call validateResponse(rReq, rResp).
CheckResponse ==
    /\ rpc = "input"
    /\ rValid' = validateResponse(rReq, rResp)
    /\ rpc' = "checked"
    /\ UNCHANGED <<cfgVars, raceVars, validVars, cacheVars, edgeVars,
                   ruleVars, ipVars, connVars, rReq, rResp>>

NextResp == CheckResponse

SpecResp == InitResp /\ [][NextResp]_vars

\* -------------------------------------------- the rule matcher on its own

\* The patterns of a match list or of the blacklist, split on ".": "", ".",
\* "a.com", "a.com.", ".a.com", ".a.com.", "b.d.com.", "com" and ".com".
RulePatterns ==
    {<<"">>, <<"", "">>, <<"a", "com">>, <<"a", "com", "">>,
     <<"", "a", "com">>, <<"", "a", "com", "">>, <<"b", "d", "com", "">>,
     <<"com">>, <<"", "com">>}

\* The names HasMatchedRule is called with, split on ".": the name of a
\* message without question, the root, and question names as the DNS
\* library unpacks them, with their trailing dot and in the letter case
\* the client sent: "com.", "a.com.", "A.com.", "a.COM.", "b.a.com.",
\* "d.b.a.com.", "a.com.cn.", "b.a.com.cn.", "b.d.com."; and ".b.a.com.cn."
\* of TestIsMatch.
RuleDomains ==
    {<<"">>, <<"", "">>, <<"com", "">>, <<"a", "com", "">>,
     <<"A", "com", "">>, <<"a", "COM", "">>, <<"b", "a", "com", "">>,
     <<"d", "b", "a", "com", "">>, <<"a", "com", "cn", "">>,
     <<"b", "a", "com", "cn", "">>, <<"b", "d", "com", "">>,
     <<"", "b", "a", "com", "cn", "">>}

InitRules ==
    /\ EdgeIdle
    /\ blacklist = <<>>
    /\ ipRanger = {}
    /\ strategy = StrategyFullest
    /\ commonUpstreams = <<>>
    /\ specialUpstreams = <<>>
    /\ RaceIdle
    /\ ValidIdle
    /\ CacheIdle
    /\ RespIdle
    /\ IpIdle
    /\ ConnIdle
    /\ mpc = "input"
    /\ mRaw \in SeqsUpTo(RulePatterns, MaxRules)
    /\ mDomain \in RuleDomains
    /\ mMatch = FALSE

\* One call utils.HasMatchedRule(utils.ParseRules(mRaw), mDomain), as
\* Upstream.Init and Upstream.IsMatch make it for a match list and
\* Config.ReadInConfig and Upstream.IsValidMsg for the blacklist.
CheckMatch ==
    /\ mpc = "input"
    /\ mMatch' = HasMatchedRule(ParseRules(mRaw), mDomain)
    /\ mpc' = "checked"
    /\ UNCHANGED <<cfgVars, raceVars, validVars, cacheVars, edgeVars,
                   respVars, ipVars, connVars, mRaw, mDomain>>

NextRules == CheckMatch

SpecRules == InitRules /\ [][NextRules]_vars

\* ------------------------------------------------- isPrivateIP on its own

\* First and second bytes of the addresses handed to isPrivateIP: the
\* private ranges, their neighbours, fe80:: and public addresses.
FirstBytes == {8, 10, 11, 32, 172, 192, 252, 253, 254}

SecondBytes == {0, 15, 16, 20, 31, 32, 128, 167, 168, 169, 255}

InitPrivate ==
    /\ EdgeIdle
    /\ blacklist = <<>>
    /\ ipRanger = {}
    /\ strategy = StrategyFullest
    /\ commonUpstreams = <<>>
    /\ specialUpstreams = <<>>
    /\ RaceIdle
    /\ ValidIdle
    /\ CacheIdle
    /\ RespIdle
    /\ RuleIdle
    /\ ConnIdle
    /\ ipc = "input"
    /\ ipIn \in {Addr(fam, b1, b2) :
                    fam \in {4, 6}, b1 \in FirstBytes, b2 \in SecondBytes}
                \cup {NoAddr}
    /\ ipPrivate = FALSE

\* One call isPrivateIP(ipIn).
CheckPrivate ==
    /\ ipc = "input"
    /\ ipPrivate' = isPrivateIP(ipIn)
    /\ ipc' = "checked"
    /\ UNCHANGED <<cfgVars, raceVars, validVars, cacheVars, edgeVars,
                   respVars, ruleVars, connVars, ipIn>>

NextPrivate == CheckPrivate

SpecPrivate == InitPrivate /\ [][NextPrivate]_vars

\* ------------------------------------- Exchange over the connection pool

\* A call of Upstream.Exchange on a tcp or tcp-tls upstream that has not
\* started: its position, whether pool.Get gave it a connection, whether
\* WriteMsg and ReadMsg failed, how often it called ReleaseConnection and
\* DiscardConnection on its connection, and the error it returned.
NewCall ==
    [pc |-> "start", borrowed |-> FALSE, werr |-> FALSE, rerr |-> FALSE,
     released |-> 0, discarded |-> 0, err |-> FALSE]

InitConn ==
    /\ EdgeIdle
    /\ blacklist = <<>>
    /\ ipRanger = {}
    /\ strategy = StrategyFullest
    /\ commonUpstreams = <<>>
    /\ specialUpstreams = <<>>
    /\ RaceIdle
    /\ ValidIdle
    /\ CacheIdle
    /\ RespIdle
    /\ RuleIdle
    /\ IpIdle
    /\ calls = [p \in 1..MaxCalls |-> NewCall]
    /\ poolActive = 0
    /\ poolIdle = 0

\* up.pool.Get of Exchange: an error (the dial failed, the pool is
\* exhausted), with which Exchange returns at once, or a connection, an idle
\* one of the pool if there is one.
PoolGet(p) ==
    /\ calls[p].pc = "start"
    /\ \E errGetConn \in BOOLEAN :
          IF errGetConn
          THEN /\ calls' = [calls EXCEPT ![p].pc = "returned",
                                         ![p].err = TRUE]
               /\ UNCHANGED <<poolActive, poolIdle>>
          ELSE /\ calls' = [calls EXCEPT ![p].pc = "borrowed",
                                         ![p].borrowed = TRUE]
               /\ poolActive' = poolActive + 1
               /\ poolIdle' = IF poolIdle > 0 THEN poolIdle - 1 ELSE poolIdle
    /\ UNCHANGED <<cfgVars, raceVars, validVars, cacheVars, edgeVars,
                   respVars, ruleVars, ipVars>>

\* co.WriteMsg(req) of dnsExchangeWithConn.
WriteMsg(p) ==
    /\ calls[p].pc = "borrowed"
    /\ \E failed \in BOOLEAN :
          calls' = [calls EXCEPT ![p].pc = IF failed THEN "failed"
                                          ELSE "written",
                                 ![p].werr = failed]
    /\ UNCHANGED <<cfgVars, raceVars, validVars, cacheVars, edgeVars,
                   respVars, ruleVars, ipVars, poolActive, poolIdle>>

\* co.ReadMsg() of dnsExchangeWithConn, called when the write succeeded.
ReadMsg(p) ==
    /\ calls[p].pc = "written"
    /\ \E failed \in BOOLEAN :
          calls' = [calls EXCEPT ![p].pc = IF failed THEN "failed" ELSE "read",
                                 ![p].rerr = failed]
    /\ UNCHANGED <<cfgVars, raceVars, validVars, cacheVars, edgeVars,
                   respVars, ruleVars, ipVars, poolActive, poolIdle>>

\* A hand-back that forgot the connection of a failed exchange.
handBack_ReleaseOnly(err) == IF ~err THEN "release" ELSE "none"

\* What dnsExchangeWithConn does with the connection: ReleaseConnection
\* when err is nil, DiscardConnection otherwise.
handBack(err) == IF ~err THEN "release" ELSE "discard"

\* The end of dnsExchangeWithConn: the connection goes back to the pool or
\* is closed.
HandBack(p) ==
    /\ calls[p].pc \in {"read", "failed"}
    /\ LET err == calls[p].werr \/ calls[p].rerr
           how == handBack(err)
       IN  /\ calls' = [calls EXCEPT
                           ![p].pc = "handed",
                           ![p].err = err,
                           ![p].released =
                               IF how = "release" THEN @ + 1 ELSE @,
                           ![p].discarded =
                               IF how = "discard" THEN @ + 1 ELSE @]
           /\ poolActive' = IF how = "none" THEN poolActive
                            ELSE poolActive - 1
           /\ poolIdle' = IF how = "release" THEN poolIdle + 1 ELSE poolIdle
    /\ UNCHANGED <<cfgVars, raceVars, validVars, cacheVars, edgeVars,
                   respVars, ruleVars, ipVars>>

\* Exchange returns what dnsExchangeWithConn returned.
ExchangeReturn(p) ==
    /\ calls[p].pc = "handed"
    /\ calls' = [calls EXCEPT ![p].pc = "returned"]
    /\ UNCHANGED <<cfgVars, raceVars, validVars, cacheVars, edgeVars,
                   respVars, ruleVars, ipVars, poolActive, poolIdle>>

NextConn ==
    \/ \E p \in DOMAIN calls : PoolGet(p)
    \/ \E p \in DOMAIN calls : WriteMsg(p)
    \/ \E p \in DOMAIN calls : ReadMsg(p)
    \/ \E p \in DOMAIN calls : HandBack(p)
    \/ \E p \in DOMAIN calls : ExchangeReturn(p)

SpecConn == InitConn /\ [][NextConn]_vars

\* -------------------------------------------- start-up and the bootstrap

\* Longest bootstrap list of a config.
MaxBoot == 2

\* Longest upstream list of a config.
MaxCfgUp == 2

\* Deepest nesting of LookupIP calls that is followed.
MaxDepth == 2

\* An entry of "bootstrap" or "upstreams" in config.json; its address is
\* protocol://host:port, for https protocol://host/path.
UpCfg(isPrimary, useSocks, protocol, host) ==
    [IsPrimary |-> isPrimary, UseSocks |-> useSocks, protocol |-> protocol,
     addrHost |-> host]

\* The hosts of the addresses: a literal IP and a name.
IPLiterals == {"1.1.1.1"}

AddrHosts == IPLiterals \cup {"dns.example"}

\* net.ParseIP(host) != nil
ParseIP(host) == host \in IPLiterals

\* Upstream.Init: protocol and hostAndPort are cut from the address, host
\* and port from hostAndPort unless the protocol is https; no callback yet.
upstreamInit(u) ==
    [IsPrimary |-> u.IsPrimary, UseSocks |-> u.UseSocks,
     protocol |-> u.protocol, addrHost |-> u.addrHost,
     host |-> IF u.protocol # "https" THEN u.addrHost ELSE "",
     bootstrap |-> "unset"]

\* Upstream.InitConnectionPool(bootstrap)
InitConnectionPool(up, bootstrap) == [up EXCEPT !.bootstrap = bootstrap]

\* A test that lets every bootstrap server pass.
bootstrapHostAccepted_Any(up) == TRUE

\* The test of ReadInConfig on a bootstrap server: its host is an IP.
bootstrapHostAccepted(up) == ParseIP(up.host)

\* A Validate without the test "use_socks but no SOCKS proxy".
Validate_NoProxyTest(up, socksProxy) ==
    IF ~up.IsPrimary /\ up.protocol = "udp" THEN "non-primary udp"
    ELSE IF up.IsPrimary /\ up.UseSocks THEN "primary socks"
    ELSE ""

\* Upstream.Validate: the error, "" for nil.
Validate(up, socksProxy) ==
    IF ~up.IsPrimary /\ up.protocol = "udp" THEN "non-primary udp"
    ELSE IF up.IsPrimary /\ up.UseSocks THEN "primary socks"
    ELSE IF up.UseSocks /\ socksProxy = "" THEN "socks not configured"
    ELSE ""

\* The first loop of Config.ReadInConfig from entry i on: the error and the
\* bootstrap servers initialised so far.
RECURSIVE readBootstrap(_, _, _)
readBootstrap(c, i, done) ==
    IF i > Len(c.Bootstrap) THEN [err |-> "", ups |-> done]
    ELSE LET up == upstreamInit(c.Bootstrap[i])
         IN  IF ~bootstrapHostAccepted(up)
             THEN [err |-> "bootstrap not an IP", ups |-> Append(done, up)]
             ELSE readBootstrap(c, i + 1,
                                Append(done, InitConnectionPool(up, "nil")))

\* The second loop of Config.ReadInConfig.
RECURSIVE readUpstreams(_, _, _)
readUpstreams(c, i, done) ==
    IF i > Len(c.Upstreams) THEN [err |-> "", ups |-> done]
    ELSE LET up == upstreamInit(c.Upstreams[i])
             err == Validate(up, c.SocksProxy)
         IN  IF err # "" THEN [err |-> err, ups |-> Append(done, up)]
             ELSE readUpstreams(c, i + 1, Append(done, up))

\* Config.ReadInConfig on the unmarshalled config.
ReadInConfig ==
    /\ bpc = "start"
    /\ LET b == readBootstrap(bCfg, 1, <<>>)
           u == readUpstreams(bCfg, 1, <<>>)
       IN  IF b.err # ""
           THEN /\ bErr' = b.err
                /\ bBoot' = b.ups
                /\ bUps' = bUps
           ELSE /\ bErr' = u.err
                /\ bBoot' = b.ups
                /\ bUps' = u.ups
    /\ bpc' = "read"
    /\ UNCHANGED <<cfgVars, raceVars, validVars, cacheVars, respVars,
                   ruleVars, ipVars, connVars, dohVars, dedupVars, bCfg,
                   bHandlers, bDialed, lookups>>

\* main after ReadInConfig: a panic on an error; otherwise the bootstrap
\* handler is built from config.Bootstrap, every upstream gets its LookupIP
\* as callback and the upstream handler is built.
Main ==
    /\ bpc = "read"
    /\ IF bErr # ""
       THEN /\ bpc' = "panic"
            /\ UNCHANGED <<bUps, bHandlers>>
       ELSE /\ bpc' = "serving"
            /\ bUps' = [i \in DOMAIN bUps |->
                           InitConnectionPool(bUps[i], "LookupIP")]
            /\ bHandlers' = {"bootstrap", "upstream"}
    /\ UNCHANGED <<cfgVars, raceVars, validVars, cacheVars, respVars,
                   ruleVars, ipVars, connVars, dohVars, dedupVars, bCfg,
                   bErr, bBoot, bDialed, lookups>>

\* Whether a dial of up calls up.bootstrap: Upstream.conntionFactory for
\* tcp and tcp-tls, the DialContext of the doh client for https; a udp
\* upstream has neither.
dialCallsBootstrap(up) ==
    CASE up.protocol \in {"tcp", "tcp-tls"} ->
             up.bootstrap # "nil" /\ ~ParseIP(up.addrHost)
      [] up.protocol = "https" -> up.bootstrap # "nil"
      [] OTHER -> FALSE

\* Whether Handler.LookupIP(host) gets as far as h.exchange.
lookupExchanges(host) == ~ParseIP(host)

\* A LookupIP call that has reached h.exchange: the host, who dialled, and
\* how often each server of the bootstrap handler was sent the question.
Lookup(host, by) ==
    [host |-> host, by |-> by, sent |-> [j \in DOMAIN bBoot |-> 0]]

\* Upstream i of the upstream handler dials its server.
UpstreamDial(i) ==
    /\ bpc = "serving"
    /\ lookups = <<>>
    /\ i \in DOMAIN bUps
    /\ i \notin bDialed
    /\ bUps[i].protocol # "udp"
    /\ IF dialCallsBootstrap(bUps[i]) /\ lookupExchanges(bUps[i].addrHost)
       THEN /\ lookups' = <<Lookup(bUps[i].addrHost, <<"upstream", i>>)>>
            /\ UNCHANGED bDialed
       ELSE /\ bDialed' = bDialed \cup {i}
            /\ UNCHANGED lookups
    /\ UNCHANGED <<cfgVars, raceVars, validVars, cacheVars, respVars,
                   ruleVars, ipVars, connVars, dohVars, dedupVars, bpc,
                   bCfg, bErr, bBoot, bUps, bHandlers>>

\* A goroutine of getAnyResult of the innermost lookup calls Exchange of
\* server j of the bootstrap handler; a server that is not udp dials, and
\* its dial starts a lookup of its own if it calls its callback with a name.
BootstrapExchange(j) ==
    /\ lookups # <<>>
    /\ j \in DOMAIN bBoot
    /\ LET top == Len(lookups)
           up == bBoot[j]
       IN  /\ lookups[top].sent[j] = 0
           /\ IF dialCallsBootstrap(up) /\ lookupExchanges(up.addrHost)
              THEN /\ top < MaxDepth
                   /\ lookups' =
                         Append([lookups EXCEPT ![top].sent[j] = @ + 1],
                                Lookup(up.addrHost, <<"bootstrap", j>>))
              ELSE lookups' = [lookups EXCEPT ![top].sent[j] = @ + 1]
    /\ UNCHANGED <<cfgVars, raceVars, validVars, cacheVars, respVars,
                   ruleVars, ipVars, connVars, dohVars, dedupVars, bpc,
                   bCfg, bErr, bBoot, bUps, bHandlers, bDialed>>

\* The innermost lookup returns, some server having answered; the dial of
\* an upstream of the upstream handler goes on with what it returned.
LookupReturn ==
    /\ lookups # <<>>
    /\ LET top == Len(lookups)
       IN  /\ \E j \in DOMAIN bBoot : lookups[top].sent[j] > 0
           /\ lookups' = SubSeq(lookups, 1, top - 1)
           /\ bDialed' = IF lookups[top].by[1] = "upstream"
                         THEN bDialed \cup {lookups[top].by[2]}
                         ELSE bDialed
    /\ UNCHANGED <<cfgVars, raceVars, validVars, cacheVars, respVars,
                   ruleVars, ipVars, connVars, dohVars, dedupVars, bpc,
                   bCfg, bErr, bBoot, bUps, bHandlers>>

NextBoot ==
    \/ ReadInConfig
    \/ Main
    \/ \E i \in DOMAIN bUps : UpstreamDial(i)
    \/ \E j \in DOMAIN bBoot : BootstrapExchange(j)
    \/ LookupReturn

\* The entries of a bootstrap list: udp, tcp or https, by IP or by name.
BootChoices ==
    {UpCfg(FALSE, FALSE, p, h) : p \in {"udp", "tcp", "https"}, h \in AddrHosts}

\* The entries of an upstream list.
UpChoices ==
    {UpCfg(pr, so, p, h) : pr \in BOOLEAN, so \in BOOLEAN,
                           p \in {"udp", "tcp-tls", "https"}, h \in AddrHosts}

\* The idle parts of a process that is starting.
StartIdle ==
    /\ blacklist = <<>>
    /\ ipRanger = {}
    /\ strategy = StrategyFullest
    /\ commonUpstreams = <<>>
    /\ specialUpstreams = <<>>
    /\ RaceIdle
    /\ ValidIdle
    /\ CacheIdle
    /\ RespIdle
    /\ RuleIdle
    /\ IpIdle
    /\ ConnIdle
    /\ DohIdle
    /\ DedupIdle
    /\ bpc = "start"
    /\ bErr = ""
    /\ bBoot = <<>>
    /\ bUps = <<>>
    /\ bHandlers = {}
    /\ bDialed = {}
    /\ lookups = <<>>

\* A config with any bootstrap list and upstreams that pass Validate: one
\* by name over tcp-tls, one by name over https and one by IP over udp.
InitBoot ==
    /\ StartIdle
    /\ \E b \in SeqsUpTo(BootChoices, MaxBoot) :
          bCfg = [Bootstrap |-> b,
                  Upstreams |-> <<UpCfg(FALSE, FALSE, "tcp-tls", "dns.example"),
                                  UpCfg(FALSE, FALSE, "https", "dns.example"),
                                  UpCfg(TRUE, FALSE, "udp", "1.1.1.1")>>,
                  SocksProxy |-> ""]

SpecBoot == InitBoot /\ [][NextBoot]_vars

\* A config with one bootstrap server and any upstream list, with and
\* without SOCKS proxy.
InitConfig ==
    /\ StartIdle
    /\ \E u \in SeqsUpTo(UpChoices, MaxCfgUp) : \E proxy \in {"", "127.0.0.1:1080"} :
          bCfg = [Bootstrap |-> <<UpCfg(FALSE, FALSE, "udp", "1.1.1.1")>>,
                  Upstreams |-> u,
                  SocksProxy |-> proxy]

SpecConfig == InitConfig /\ [][NextBoot]_vars

\* ------------------------------------------------------ the DoH endpoint

dohMediaType == "application/dns-message"

\* http.Request.BasicAuth: <<>> when the request has no well-formed Basic
\* Authorization header (ok is false), <<username, password>> otherwise.
BasicAuths ==
    {<<>>, <<"admin", "secret">>, <<"admin", "wrong">>, <<"eve", "secret">>,
     <<"admin", "">>}

\* The Accept headers: none, the DoH media type, another type, and a list
\* that names the DoH media type.
Accepts == {"", dohMediaType, "application/dns-json", "application/dns-message, */*"}

\* The values of the dns parameter: absent or empty; not base64url; base64url
\* with padding; the encoding of bytes that are no DNS message; the encodings
\* of a query for www.bing.com. and of a message without question.
DnsParams == {"", "%%%", "cXVlcnk=", "Z2FyYmFnZQ", "cXVlcnk", "bm9xdWVzdGlvbg"}

\* base64.RawURLEncoding.DecodeString: <<data, err>>.
DecodeString(query) ==
    CASE query = "Z2FyYmFnZQ" -> <<"garbage", FALSE>>
      [] query = "cXVlcnk" -> <<"query", FALSE>>
      [] query = "bm9xdWVzdGlvbg" -> <<"noquestion", FALSE>>
      [] query = "" -> <<"", FALSE>>
      [] OTHER -> <<"", TRUE>>

\* dns.Msg.Unpack: <<msg, err>>.
Unpack(data) ==
    CASE data = "query" -> <<Msg(<<NameBing>>, "", <<>>), FALSE>>
      [] data = "noquestion" -> <<Msg(<<>>, "", <<>>), FALSE>>
      [] OTHER -> <<NoMsg, TRUE>>

\* What s.handler returns: nil, a message that packs, a message whose Pack
\* fails.
HandlerResults == {"nil", "msg", "unpackable"}

\* A test that compares the user name only.
authorized_UsernameOnly(s, r) ==
    \/ ~(s.username # "" /\ s.password # "")
    \/ r.auth # <<>> /\ r.auth[1] = s.username

\* The Basic auth test of handleQuery.
authorized(s, r) ==
    \/ ~(s.username # "" /\ s.password # "")
    \/ r.auth # <<>> /\ r.auth[1] = s.username /\ r.auth[2] = s.password

\* DoHServer.handleQuery when s.handler returns h: the status of the
\* response and the results of the handler calls made.
handleQuery(s, r, h) ==
    IF ~authorized(s, r) THEN [status |-> 401, invoked |-> <<>>]
    ELSE IF r.accept # dohMediaType THEN [status |-> 415, invoked |-> <<>>]
    ELSE IF r.dns = "" THEN [status |-> 400, invoked |-> <<>>]
    ELSE IF DecodeString(r.dns)[2] THEN [status |-> 400, invoked |-> <<>>]
    ELSE IF Unpack(DecodeString(r.dns)[1])[2]
         THEN [status |-> 400, invoked |-> <<>>]
    ELSE IF h = "nil" THEN [status |-> 500, invoked |-> <<h>>]
    ELSE IF h = "unpackable" THEN [status |-> 500, invoked |-> <<h>>]
    ELSE [status |-> 200, invoked |-> <<h>>]

InitDoh ==
    /\ blacklist = <<>>
    /\ ipRanger = {}
    /\ strategy = StrategyFullest
    /\ commonUpstreams = <<>>
    /\ specialUpstreams = <<>>
    /\ RaceIdle
    /\ ValidIdle
    /\ CacheIdle
    /\ RespIdle
    /\ RuleIdle
    /\ IpIdle
    /\ ConnIdle
    /\ BootIdle
    /\ DedupIdle
    /\ dpc = "input"
    /\ dSrv \in [username : {"", "admin"}, password : {"", "secret"}]
    /\ dReq \in [auth : BasicAuths, accept : Accepts, dns : DnsParams]
    /\ dStatus = 0
    /\ dInvoked = <<>>

\* One request to /dns-query.
HandleQuery ==
    /\ dpc = "input"
    /\ \E h \in HandlerResults :
          LET out == handleQuery(dSrv, dReq, h)
          IN  /\ dStatus' = out.status
              /\ dInvoked' = out.invoked
    /\ dpc' = "done"
    /\ UNCHANGED <<cfgVars, raceVars, validVars, cacheVars, respVars,
                   ruleVars, ipVars, connVars, bootVars, dedupVars, dSrv,
                   dReq>>

NextDoh == HandleQuery

SpecDoh == InitDoh /\ [][NextDoh]_vars

\* ----------------------------------------------- uniqueAnswer on its own

\* Longest record list handed to uniqueAnswer.
MaxDedup == 3

\* The records of the lists: an address of www.bing.com. with two TTLs, a
\* second address, a CNAME, a record of a type uniqueAnswer has no case for
\* with two TTLs, and a nil entry.
DedupRRs ==
    {RRTtl(NameBing, "A", "1.0.0.1", 300),
     RRTtl(NameBing, "A", "1.0.0.1", 60),
     RRTtl(NameBing, "A", "8.8.8.8", 300),
     RRTtl(NameBing, "CNAME", NameCdn, 300),
     RRTtl(NameBing, "HTTPS", "alpn=h2", 300),
     RRTtl(NameBing, "HTTPS", "alpn=h2", 60),
     NilRR}

InitDedup ==
    /\ blacklist = <<>>
    /\ ipRanger = {}
    /\ strategy = StrategyFullest
    /\ commonUpstreams = <<>>
    /\ specialUpstreams = <<>>
    /\ RaceIdle
    /\ ValidIdle
    /\ CacheIdle
    /\ RespIdle
    /\ RuleIdle
    /\ IpIdle
    /\ ConnIdle
    /\ BootIdle
    /\ DohIdle
    /\ upc = "input"
    /\ uIn \in SeqsUpTo(DedupRRs, MaxDedup)
    /\ uOnce = <<>>
    /\ uTwice = <<>>

\* uniqueAnswer(uIn), and uniqueAnswer of what it returned.
CheckUnique ==
    /\ upc = "input"
    /\ uOnce' = uniqueAnswer(uIn)
    /\ uTwice' = uniqueAnswer(uniqueAnswer(uIn))
    /\ upc' = "checked"
    /\ UNCHANGED <<cfgVars, raceVars, validVars, cacheVars, respVars,
                   ruleVars, ipVars, connVars, bootVars, dohVars, uIn>>

NextDedup == CheckUnique

SpecDedup == InitDedup /\ [][NextDedup]_vars

\* ------------------------------------------- the caching handler, raced

\* www.bing.COM., a name of the blacklisted zone with its last label in
\* capitals.
NameBingCaps == <<"www", "bing", "COM", "">>

\* The requests of a caching handler in front of two upstreams:
\* www.bing.com. A, the same name with upper-case letters, and a message
\* without question, which the DoH endpoint hands over as it unpacked it.
ServeRequests ==
    {Msg(<<NameBing>>, "", <<>>),
     Msg(<<NameBingCaps>>, "", <<>>),
     Msg(<<>>, "", <<>>)}

\* Whether getDnsRequestCacheKey panics on m: it indexes m.Question[0]
\* without a test of the length.
getDnsRequestCacheKeyPanics(m) == Len(m.Question) = 0

\* A handler with a cache, the Fullest or the Fastest strategy, and two
\* common upstreams, the first one primary.
InitServe ==
    /\ blacklist = ParseRules(BlacklistRaw)
    /\ ipRanger = RaceRanger
    /\ strategy \in {StrategyFullest, StrategyFastest}
    /\ LET h == NewHandler(<<Upstream(1, TRUE, <<>>),
                             Upstream(2, FALSE, <<>>)>>)
       IN  /\ commonUpstreams = h.commonUpstreams
           /\ specialUpstreams = h.specialUpstreams
    /\ RaceIdle
    /\ ValidIdle
    /\ UnitIdle
    /\ cacheImpl \in {"json", "wire"}
    /\ cache = <<>>
    /\ now = 0
    /\ last = NoCall
    /\ probe = NoProbe
    /\ nReq = 0
    /\ nTick = 0

\* HandleDnsMsg from its entry to the call of h.exchange: the cache key
\* (a panic for a request without question, which ends the call without a
\* reply), the Get, the fresh hit.
ServeProbe ==
    /\ cacheImpl # "none"
    /\ pc = "idle"
    /\ nReq < MaxReq
    /\ nReq' = nReq + 1
    /\ \E r \in ServeRequests :
          IF getDnsRequestCacheKeyPanics(r)
          THEN /\ last' = Call(r, NoMsg, "panic", FALSE, NoMsg, <<>>,
                               NoEntry, FALSE)
               /\ UNCHANGED <<cache, probe, req, pc>>
          ELSE LET cacheKey == getDnsRequestCacheKey(r)
                   e == IF cacheKey \in DOMAIN cache THEN cache[cacheKey]
                        ELSE NoEntry
                   g == Get(cache, cacheKey, now)
                   hitMsg == replyUpdateTtl(r, g.v.Msg,
                                            freshTtl(g.v.Expires, now))
               IN  /\ cache' = g.cache
                   /\ IF g.ok /\ g.v.Expires > now /\ Len(hitMsg.Answer) > 0
                      THEN /\ last' = Call(r, hitMsg, "fresh", FALSE, NoMsg,
                                           cacheKey, e, FALSE)
                           /\ UNCHANGED <<probe, req, pc>>
                      ELSE /\ probe' = Probe(cacheKey, g.ok, g.v, e)
                           /\ req' = r
                           /\ pc' = "start"
                           /\ UNCHANGED last
    /\ UNCHANGED <<cfgVars, validVars, unitVars, resp, matched, msgs, wg,
                   finishedCount, finished, primaryIndex, freedomIndex,
                   exchanged, cacheImpl, now, nTick>>

\* HandleDnsMsg from the return of wg.Wait: the strategy returns msgs,
\* exchange merges them; the stale fallback, or SetReply, the validation
\* and the Set; return. The goroutines still running keep the locals of
\* this call to themselves.
ServeReturn ==
    /\ cacheImpl # "none"
    /\ pc = "wait"
    /\ wg = 0
    /\ LET res == exchange(msgs)
           staleMsg == replyUpdateTtl(req, probe.v.Msg, 12)
           m == SetReply(res, req)
           ttl == getDnsResponseTtl(m)
       IN  IF res.Rcode = "SERVFAIL" /\ probe.ok /\ Len(staleMsg.Answer) > 0
           THEN /\ last' = Call(req, staleMsg, "stale", TRUE, res,
                                probe.key, probe.held, FALSE)
                /\ UNCHANGED cache
           ELSE /\ cache' =
                      IF shouldStore(req, m)
                      THEN Set(cache, probe.key, m, now + Seconds(ttl),
                               Seconds(ttl) + Seconds(3600), now, req,
                               res.Rcode)
                      ELSE cache
                /\ last' = Call(req, m, "none", TRUE, res, probe.key,
                                probe.held, shouldStore(req, m))
    /\ probe' = NoProbe
    /\ req' = NoMsg
    /\ pc' = "idle"
    /\ resp' = NoMsg
    /\ matched' = <<>>
    /\ msgs' = <<>>
    /\ wg' = 0
    /\ finishedCount' = 0
    /\ finished' = FALSE
    /\ primaryIndex' = <<>>
    /\ freedomIndex' = <<>>
    /\ exchanged' = <<>>
    /\ UNCHANGED <<cfgVars, validVars, unitVars, cacheImpl, now, nReq,
                   nTick>>

NextServe ==
    \/ ServeProbe
    \/ getTheFullestResults
    \/ getTheFastestResults
    \/ \E j \in Idx : FullestArrive(j)
    \/ \E j \in Idx : FastestArrive(j)
    \/ ServeReturn
    \/ Tick

SpecServe == InitServe /\ [][NextServe]_vars

\* ------------------------------------------------------------- the claims

\* Goroutine j stored a message in the result vector.
kept(j) == ~msgs[j].nil

\* Upstream j has returned, and without error.
cleanReturn(j) == exchanged[j].returned /\ ~exchanged[j].err

\* Upstream j has returned without error a message that satisfies its
\* IsValidMsg.
passed(j) == cleanReturn(j) /\ IsValidMsg(matched[j], exchanged[j].msg)

\* The records of the reply all come from messages of upstreams in J.
replyFrom(J) ==
    \A k \in DOMAIN resp.Answer :
        \E j \in J : \E n \in DOMAIN exchanged[j].msg.Answer :
            exchanged[j].msg.Answer[n] = resp.Answer[k]

\* The address records of vMsg.
addrAnswers ==
    {i \in DOMAIN vMsg.Answer : vMsg.Answer[i].Rrtype \in {"A", "AAAA"}}

\* C1 as stated: under every strategy, a kept message was returned without
\* error and satisfied IsValidMsg, and the reply holds records of such
\* messages only.
C1_KeptValidatedEveryStrategy ==
    /\ \A j \in Idx : kept(j) => passed(j) /\ msgs[j] = exchanged[j].msg
    /\ pc = "done" => replyFrom({j \in Idx : passed(j)})

\* C1 amended: under Fullest and Fastest a kept message was returned without
\* error and satisfied IsValidMsg, and the reply holds records of such
\* messages only; under AnyResult the kept message is what the arrival that
\* ended the race returned, validated or not, with or without error.
C1_KeptValidatedFullestFastest ==
    /\ strategy \in {StrategyFullest, StrategyFastest} =>
          /\ \A j \in Idx : kept(j) => passed(j) /\ msgs[j] = exchanged[j].msg
          /\ pc = "done" => replyFrom({j \in Idx : passed(j)})
    /\ strategy = StrategyAnyResult =>
          /\ \A j \in Idx :
                kept(j) => exchanged[j].fired /\ msgs[j] = exchanged[j].msg
          /\ pc = "done" => replyFrom({j \in Idx : exchanged[j].fired})

\* C1 witness: a reply was built under Fullest or Fastest from a kept
\* message while another upstream's message, returned without error before
\* the race ended, failed validation and was dropped.
C1_Witness ==
    /\ strategy \in {StrategyFullest, StrategyFastest}
    /\ pc = "done"
    /\ Len(resp.Answer) > 0
    /\ \E j \in Idx : kept(j)
    /\ \E k \in Idx : cleanReturn(k) /\ ~exchanged[k].late /\ ~passed(k)

\* C2: a primary upstream's IsValidMsg is false whenever the response holds
\* an A or AAAA answer whose address is neither private-range nor in the
\* primary CIDR set.
C2_PrimaryRejectsForeignAddress ==
    (/\ vpc = "checked"
     /\ vUp.IsPrimary
     /\ \E i \in addrAnswers :
           /\ vMsg.Answer[i].Data # NilIP
           /\ vMsg.Answer[i].Data \notin PrivateIPs
           /\ vMsg.Answer[i].Data \notin ipRanger)
        => ~vValid

\* C2 witness: a primary upstream's response whose first address is in the
\* primary set and whose second is public and outside it was checked.
C2_Witness ==
    /\ vpc = "checked"
    /\ vUp.IsPrimary
    /\ Len(vMsg.Answer) = 2
    /\ vMsg.Answer[1].Rrtype = "A" /\ vMsg.Answer[1].Data \in ipRanger
    /\ vMsg.Answer[2].Rrtype = "AAAA"
    /\ vMsg.Answer[2].Data = "2001:4860:4860::8888"
    /\ vMsg.Answer[2].Data \notin ipRanger
    /\ ~vValid

\* C3: for a primary and for a non-primary upstream, IsValidMsg is false
\* whenever the question name matches the blacklist and the response holds a
\* non-private A or AAAA answer whose address is in the primary CIDR set.
C3_BlacklistRejectsPrimaryAddress ==
    (/\ vpc = "checked"
     /\ HasMatchedRule(blacklist, GetDomainNameFromDnsMsg(vMsg))
     /\ \E i \in addrAnswers :
           /\ vMsg.Answer[i].Data \notin PrivateIPs
           /\ vMsg.Answer[i].Data \in ipRanger)
        => ~vValid

\* C3 witness: a non-primary upstream's response to a blacklisted name with
\* a public address of the primary set was checked and rejected.
C3_Witness ==
    /\ vpc = "checked"
    /\ ~vUp.IsPrimary
    /\ vMsg.Question = <<NameBing>>
    /\ Len(vMsg.Answer) = 1
    /\ vMsg.Answer[1].Rrtype = "A"
    /\ vMsg.Answer[1].Data = "1.0.0.1"
    /\ "1.0.0.1" \in ipRanger
    /\ ~vValid

\* C4 as stated: a response that has address answers, all of them
\* private-range, is valid for a primary and for a non-primary upstream,
\* whatever the primary CIDR set contains.
C4_PrivateNeverRejected ==
    (/\ vpc = "checked"
     /\ addrAnswers # {}
     /\ \A i \in addrAnswers : vMsg.Answer[i].Data \in PrivateIPs)
        => vValid

\* C5 as stated: under Fastest, once some primary upstream has returned
\* without error a message that passed validation, the race has ended.
C5_ValidPrimaryEndsRace ==
    (/\ strategy = StrategyFastest
     /\ \E j \in Idx : matched[j].IsPrimary /\ passed(j))
        => finished

\* C6 as stated: under Fastest, once a primary and a freedom upstream have
\* returned, validated or not, the race has ended.
C6_BothGroupsReturnedEndsRace ==
    (/\ strategy = StrategyFastest
     /\ \E j \in Idx : matched[j].IsPrimary /\ exchanged[j].returned
     /\ \E k \in Idx : ~matched[k].IsPrimary /\ exchanged[k].returned)
        => finished

\* C6 amended: under Fastest, once a primary upstream has returned without
\* error (its message valid or not) and a freedom upstream has returned
\* without error a message that passed validation, the race has ended.
C6_PrimaryAndValidFreedomEndsRace ==
    (/\ strategy = StrategyFastest
     /\ \E j \in Idx : matched[j].IsPrimary /\ cleanReturn(j)
     /\ \E k \in Idx : ~matched[k].IsPrimary /\ passed(k))
        => finished

\* C6 witness: the race ended with an upstream still pending, after a
\* primary returned a message that failed validation and a freedom returned
\* a valid one.
C6_Witness ==
    /\ strategy = StrategyFastest
    /\ finished
    /\ \E j \in Idx :
          matched[j].IsPrimary /\ cleanReturn(j) /\ ~passed(j)
              /\ ~exchanged[j].late
    /\ \E k \in Idx : ~matched[k].IsPrimary /\ passed(k) /\ ~exchanged[k].late
    /\ \E l \in Idx : ~exchanged[l].returned

\* C7: under Fastest and AnyResult, once the exit predicate has fired no
\* step writes the result vector any more, so the reply is built from
\* messages that arrived no later than the arrival that fired it.
C7_NoWriteAfterExit ==
    [][(strategy \in {StrategyFastest, StrategyAnyResult} /\ finished)
          => (msgs' = msgs /\ finished')]_vars

\* C7 witness: a straggler arrived after the race ended with a message that
\* came without error and passes validation, and its slot is empty.
C7_Witness ==
    /\ strategy \in {StrategyFastest, StrategyAnyResult}
    /\ pc = "done"
    /\ \E j \in Idx : exchanged[j].late /\ passed(j) /\ ~kept(j)

\* C8: under Fullest, HandleDnsMsg has returned only if every matched
\* upstream has returned, and the kept messages are exactly those of the
\* upstreams that returned without error and passed validation.
C8_FullestWaitsForAll ==
    strategy = StrategyFullest =>
        /\ pc = "done" => \A j \in Idx : exchanged[j].returned
        /\ \A j \in Idx :
              /\ exchanged[j].returned => (kept(j) <=> passed(j))
              /\ kept(j) => exchanged[j].returned /\ msgs[j] = exchanged[j].msg

\* C8 witness: Fullest returned after three upstreams: one kept, one with an
\* error, one whose message failed validation.
C8_Witness ==
    /\ strategy = StrategyFullest
    /\ pc = "done"
    /\ \E j \in Idx : kept(j)
    /\ \E k \in Idx : exchanged[k].err
    /\ \E l \in Idx : cleanReturn(l) /\ ~passed(l)

\* C9: under AnyResult, the race has ended exactly when some upstream has
\* returned without error or every upstream has returned; the arrival that
\* ended it carried no error or was the last of all, every arrival before it
\* carried an error; at most one message is kept, the one of that arrival.
C9_AnyResultFirstSuccess ==
    strategy = StrategyAnyResult /\ pc # "start" =>
        /\ finished <=> \/ \E j \in Idx : cleanReturn(j)
                        \/ Len(matched) > 0 /\ \A j \in Idx : exchanged[j].returned
        /\ \A j, k \in Idx : exchanged[j].fired /\ exchanged[k].fired => j = k
        /\ \A j \in Idx :
              /\ exchanged[j].fired =>
                    \/ ~exchanged[j].err
                    \/ \A k \in Idx : exchanged[k].returned /\ ~exchanged[k].late
              /\ (exchanged[j].returned /\ ~exchanged[j].late
                     /\ ~exchanged[j].fired) => exchanged[j].err
              /\ kept(j) => exchanged[j].fired
              /\ exchanged[j].fired => msgs[j] = exchanged[j].msg

\* C9 witness: the race ended at a success that arrived after an error, and a
\* straggler arrived later.
C9_Witness ==
    /\ strategy = StrategyAnyResult
    /\ finished
    /\ \E j \in Idx : exchanged[j].fired /\ ~exchanged[j].err /\ kept(j)
    /\ \E k \in Idx : exchanged[k].returned /\ ~exchanged[k].late
                         /\ exchanged[k].err
    /\ \E l \in Idx : exchanged[l].late

\* C10 as stated, for a finite run: for each strategy and every matched set,
\* once every started exchange has returned, HandleDnsMsg has returned or
\* its wg.Wait can return.
C10_ReturnsOnceAllReturned ==
    (pc = "wait" /\ \A j \in Idx : exchanged[j].returned) => wg = 0

\* C11 as stated: when the race kept no upstream message (and the handler,
\* built without cache, has no stale entry to serve), the reply HandleDnsMsg
\* returns carries rcode SERVFAIL.
C11_NothingKeptRepliesServfail ==
    (pc = "done" /\ \A j \in Idx : ~kept(j)) => resp.Rcode = "SERVFAIL"

\* The entry the store holds now under key k, and the keys of such entries.
heldNow(k) == held(cache, k, now)

heldKeys == {k \in DOMAIN cache : heldNow(k).written}

\* The records of sequence rrs with their TTL set to ttl.
withTtl(rrs, ttl) == [i \in DOMAIN rrs |-> [rrs[i] EXCEPT !.Ttl = ttl]]

\* C12 as stated: when the strategy yields SERVFAIL and an entry for the
\* request's key whose expiry has passed was stored earlier, the reply holds
\* that entry's answer records, each with TTL 12.
C12_StaleServedOnServfail ==
    (/\ last.done
     /\ last.exchanged
     /\ last.res.Rcode = "SERVFAIL"
     /\ last.held.written
     /\ last.held.Expires < last.at
     /\ Len(last.held.Msg.Answer) > 0)
        => /\ last.served = "stale"
           /\ last.resp.Answer = withTtl(last.held.Msg.Answer, 12)

\* C12, the part that holds: with the wire-format store, an entry with
\* answer records whose expiry has passed and that the store still holds is
\* served with TTL 12 when the strategy yields SERVFAIL.
C12_WireStoreServesStale ==
    (/\ cacheImpl = "wire"
     /\ last.done
     /\ last.exchanged
     /\ last.res.Rcode = "SERVFAIL"
     /\ last.held.written
     /\ WholeSeconds(last.at) < last.held.until
     /\ last.held.Expires < last.at
     /\ Len(last.held.Msg.Answer) > 0)
        => /\ last.served = "stale"
           /\ last.resp.Answer = withTtl(last.held.Msg.Answer, 12)

\* C13 as stated: every entry written to the cache is the reply to a strategy
\* result whose rcode was NOERROR or NXDOMAIN, never SERVFAIL or FORMERR.
C13_NoFailureStored ==
    \A k \in DOMAIN cache : cache[k].from \in {"NOERROR", "NXDOMAIN"}

\* C14 as stated: every reply HandleDnsMsg returns without serving it from
\* the cache satisfies validateResponse(request, reply).
C14_MissReplyValidated ==
    (last.done /\ last.served = "none")
        => validateResponse(last.req, last.resp)

\* C14 amended: every reply written to the cache satisfies validateResponse
\* for the request it answers; a reply that does not is returned to the
\* caller all the same, and is not stored.
C14_StoredReplyValidated ==
    /\ \A k \in DOMAIN cache : validateResponse(cache[k].by, cache[k].Msg)
    /\ (last.done /\ last.served = "none"
           /\ ~validateResponse(last.req, last.resp)) => ~last.stored

\* C14 witness: a reply with a CNAME of a foreign name was returned on a
\* miss and the cache holds nothing for its key.
C14_Witness ==
    /\ last.done
    /\ last.served = "none"
    /\ \E i \in DOMAIN last.resp.Answer :
          /\ last.resp.Answer[i].Rrtype = "CNAME"
          /\ last.resp.Answer[i].Name = NameEvil
    /\ ~validateResponse(last.req, last.resp)
    /\ ~last.stored
    /\ last.key \notin DOMAIN cache

\* The store held, when the last call began, an entry for the request's key
\* whose expiry lay in the future.
freshHeld ==
    /\ last.done
    /\ last.held.written
    /\ ~last.held.deleted
    /\ WholeSeconds(last.at) < last.held.until
    /\ last.held.Expires > last.at

\* C15 as stated: whenever the cache holds an entry for the request's key
\* whose expiry lies in the future, the reply is that entry's message and no
\* upstream exchange is started.
C15_FreshEntryAnswers ==
    freshHeld => /\ last.served = "fresh"
                 /\ ~last.exchanged
                 /\ Len(last.resp.Answer) = Len(last.held.Msg.Answer)

\* The records of the three sections of m other than the OPT pseudo-record.
sectionRRs(m) ==
    {m.Answer[i] : i \in DOMAIN m.Answer}
        \cup {m.Ns[i] : i \in DOMAIN m.Ns}
        \cup {m.Extra[i] : i \in {j \in DOMAIN m.Extra :
                                     m.Extra[j].Rrtype # "OPT"}}

\* max(0, expiry - now) in whole seconds.
remaining(expires, t) == IF expires > t THEN WholeSeconds(expires - t) ELSE 0

\* C16: in every reply served from a fresh cache hit, each record of the
\* answer, authority and additional sections (the OPT pseudo-record aside)
\* has TTL max(0, expiry - now) in whole seconds, expiry being the absolute
\* expiry stored with the entry.
C16_FreshHitTtlIsRemaining ==
    last.served = "fresh" =>
        \A rr \in sectionRRs(last.resp) :
            rr.Ttl = remaining(last.held.Expires, last.at)

\* C16 witness: a fresh hit was served some time after the entry was stored,
\* with records in all three sections.
C16_Witness ==
    /\ last.served = "fresh"
    /\ last.at > last.held.at
    /\ Len(last.resp.Answer) > 0
    /\ Len(last.resp.Ns) > 0
    /\ Len(last.resp.Extra) > 0
    /\ \A rr \in sectionRRs(last.resp) : rr.Ttl > 0 /\ rr.Ttl < 300

\* The minimum TTL of the records rrs, 60 when there are none, clamped to
\* 60..3600.
minTtlClamped(rrs) ==
    LET T == {rrs[i].Ttl : i \in DOMAIN rrs}
        ttl == IF T = {} THEN 60 ELSE CHOOSE x \in T : \A y \in T : x <= y
    IN  IF ttl < 60 THEN 60 ELSE IF ttl > 3600 THEN 3600 ELSE ttl

\* C17 as stated: the lifetime of a stored entry, its absolute expiry minus
\* the store time, is the minimum TTL of the reply's answer records, or 60 s
\* when there are none, clamped to 60 s .. 3600 s.
C17_LifetimeIsMinTtl ==
    \A k \in DOMAIN cache :
        cache[k].Expires - cache[k].at
            = Seconds(minTtlClamped(cache[k].Msg.Answer))

\* The DO bit of request r.
doBit(r) == IsEdns0(r) # 0 /\ Do(r.Extra[IsEdns0(r)])

\* C18: every entry lies under the key of the request whose reply it is, the
\* keys of two requests that differ in the DO bit differ, and a reply served
\* from the cache comes from an entry stored for a request with the same DO
\* bit as the request it is served to.
C18_DoBitSeparatesEntries ==
    /\ \A k \in DOMAIN cache : k = getDnsRequestCacheKey(cache[k].by)
    /\ \A r1, r2 \in CacheRequests :
          doBit(r1) # doBit(r2)
              => getDnsRequestCacheKey(r1) # getDnsRequestCacheKey(r2)
    /\ last.served # "none" => doBit(last.held.by) = doBit(last.req)

\* C18 witness: a request without the DO bit was handled upstream while the
\* store held a fresh entry with answer records, stored for the same name and
\* qtype with the DO bit; that entry is still there.
C18_Witness ==
    /\ cacheImpl = "wire"
    /\ last.done
    /\ ~doBit(last.req)
    /\ last.served = "none"
    /\ \E k \in heldKeys :
          /\ doBit(cache[k].by)
          /\ cache[k].by.Question = last.req.Question
          /\ cache[k].by.Qtype = last.req.Qtype
          /\ cache[k].at < last.at
          /\ cache[k].Expires > last.at
          /\ Len(cache[k].Msg.Answer) > 0

\* C19 as stated: a request whose name differs only in letter case from the
\* name of the request an entry was stored for, with the same qtype and DO
\* bit, has the key of that entry.
C19_KeyIgnoresCase ==
    \A k \in DOMAIN cache :
        (/\ last.done
         /\ EqualFold(cache[k].by.Question[1], last.req.Question[1])
         /\ cache[k].by.Qtype = last.req.Qtype
         /\ doBit(cache[k].by) = doBit(last.req))
            => k = last.key

\* The names reachable from the names S by following, n times, the CNAME
\* records of the answer of rs.
RECURSIVE chainFrom(_, _, _)
chainFrom(S, rs, n) ==
    IF n = 0 THEN S
    ELSE chainFrom(S \cup {canonical(rs.Answer[i].Data) :
                              i \in {j \in DOMAIN rs.Answer :
                                        /\ rs.Answer[j].Rrtype = "CNAME"
                                        /\ canonical(rs.Answer[j].Name) \in S}},
                   rs, n - 1)

\* The transitive CNAME chain of rs rooted at the name rq asks for.
cnameChain(rq, rs) ==
    chainFrom({canonical(rq.Question[1])}, rs, Len(rs.Answer))

\* C20 as stated: validateResponse is false whenever the answer holds a CNAME
\* record whose owner is outside the transitive CNAME chain rooted at the
\* requested name.
C20_ForeignCnameRejected ==
    (/\ rpc = "checked"
     /\ Len(rReq.Question) > 0
     /\ \E i \in DOMAIN rResp.Answer :
           /\ rResp.Answer[i].Rrtype = "CNAME"
           /\ canonical(rResp.Answer[i].Name) \notin cnameChain(rReq, rResp))
        => ~rValid

\* The OPT records of message m that carry a client subnet.
withSubnet(m) ==
    {i \in DOMAIN m.Extra :
        /\ m.Extra[i].Rrtype = "OPT"
        /\ \E k \in DOMAIN m.Extra[i].Option :
              m.Extra[i].Option[k] = EDNS0_SUBNET}

\* C21 as stated: under every strategy, no request handed to an upstream's
\* Exchange carries an EDNS Client Subnet option, whatever the client's
\* request carried.
C21_NoSubnetToUpstream ==
    \A j \in DOMAIN exchanged : withSubnet(exchanged[j].sent) = {}

\* C21, the part that holds: the OPT record that IsEdns0 finds, the last of
\* the additional section, carries no client subnet in any request handed to
\* an upstream, and keeps its other options.
C21_LastOptCleaned ==
    \A j \in DOMAIN exchanged :
        LET m == exchanged[j].sent
        IN  IsEdns0(m) # 0 => IsEdns0(m) \notin withSubnet(m)

\* The upstreams of a list, as a set.
upstreamsOf(ups) == {ups[i] : i \in DOMAIN ups}

\* The special upstreams whose rules match the question name of the request.
matchingSpecials ==
    {u \in upstreamsOf(specialUpstreams) :
        Len(req.Question) > 0 /\ HasMatchedRule(ParseRules(u.Match),
                                                req.Question[1])}

\* The upstreams for which a goroutine was started, each of which calls
\* Exchange.
queried == {matched[j] : j \in DOMAIN exchanged}

\* C22: once the race has started, the upstreams queried are exactly the
\* special upstreams that match the question name when there is one, and
\* exactly the common upstreams otherwise; no upstream is queried twice, and
\* when the race is over under Fullest every one of them has returned.
C22_RoutedToMatchingOrCommon ==
    pc # "start" =>
        /\ queried = IF matchingSpecials # {} THEN matchingSpecials
                     ELSE upstreamsOf(commonUpstreams)
        /\ matchingSpecials # {} =>
              queried \cap upstreamsOf(commonUpstreams) = {}
        /\ Cardinality(queried) = Len(exchanged)
        /\ (pc = "done" /\ strategy = StrategyFullest) =>
              \A j \in DOMAIN exchanged : exchanged[j].returned

\* C22 witness: with a common upstream, a special upstream for .onion. and
\* one for .bing.com. configured, a request for abc.onion. was answered
\* after querying the .onion. upstream alone.
C22_Witness ==
    /\ pc = "done"
    /\ req.Question = <<NameOnion>>
    /\ Len(commonUpstreams) = 1
    /\ Len(specialUpstreams) = 2
    /\ \E u \in upstreamsOf(specialUpstreams) : u.Match = MatchBing
    /\ Cardinality(queried) = 1
    /\ \A u \in queried : u.Match = MatchOnion
    /\ \A j \in DOMAIN exchanged : exchanged[j].returned

\* C23: for a response without answer records, IsValidMsg is false when the
\* upstream is primary and true when it is not, whatever the question, the
\* blacklist and the primary CIDR set.
C23_EmptyAnswerByPrimary ==
    (vpc = "checked" /\ Len(vMsg.Answer) = 0) => (vValid = ~vUp.IsPrimary)

\* C23 witness: a primary upstream's response without answers to a question
\* for a blacklisted name was checked and found invalid.
C23_Witness ==
    /\ vpc = "checked"
    /\ vUp.IsPrimary
    /\ vMsg.Question = <<NameBing>>
    /\ HasMatchedRule(blacklist, NameBing)
    /\ Len(vMsg.Answer) = 0
    /\ ~vValid

\* The rules ParseRules made of the patterns.
mRules == ParseRules(mRaw)

\* The rules, as a set.
ruleSet == {mRules[i] : i \in DOMAIN mRules}

\* Domain d is name n with one or more non-empty labels in front of it.
prepended(d, n) ==
    /\ Len(d) > Len(n)
    /\ SubSeq(d, Len(d) - Len(n) + 1, Len(d)) = n
    /\ \A i \in 1..(Len(d) - Len(n)) : d[i] # ""

\* The rules with a leading dot, and for such a rule ".X" the name X.
dotRules == {r \in ruleSet : Len(r) >= 2 /\ r[1] = ""}

\* C24: a rule ".X" matches every domain made of one or more non-empty
\* labels in front of X, whatever other rules are in its set, and on its own
\* it does not match X.
C24_DotRuleStrictSuffix ==
    mpc = "checked" =>
        \A r \in dotRules :
            /\ prepended(mDomain, Tail(r)) => mMatch
            /\ (mRules = <<r>> /\ mDomain = Tail(r)) => ~mMatch

\* C24 witness: the rule ".a.com" was tried on d.b.a.com. and matched it.
C24_Witness ==
    /\ mpc = "checked"
    /\ mRaw = << <<"", "a", "com">> >>
    /\ mDomain = <<"d", "b", "a", "com", "">>
    /\ mMatch

\* The rules without a leading dot.
plainRules == {r \in ruleSet : r[1] # ""}

\* C25: a rule "X" without leading dot matches the name X, whatever other
\* rules are in its set, and on its own it matches no name other than X:
\* not X with labels in front of it, not X with labels after it.
C25_PlainRuleExact ==
    mpc = "checked" =>
        \A r \in plainRules :
            /\ mDomain = r => mMatch
            /\ (mRules = <<r>> /\ mMatch) => mDomain = r

\* C25 witness: the rule "a.com" was tried on b.a.com. and did not match it.
C25_Witness ==
    /\ mpc = "checked"
    /\ mRaw = << <<"a", "com">> >>
    /\ mDomain = <<"b", "a", "com", "">>
    /\ ~mMatch

\* C26: the rule "." on its own matches every name but the empty one, and
\* a rule set built from empty patterns only matches no name.
C26_DotMatchesAllEmptyNone ==
    mpc = "checked" =>
        /\ mRules = << <<"", "">> >> => (mMatch <=> mDomain # <<"">>)
        /\ (\A i \in DOMAIN mRaw : mRaw[i] = <<"">>) => ~mMatch

\* C26 witness: the patterns "" and "" were tried on a.com. and did not
\* match it.
C26_Witness ==
    /\ mpc = "checked"
    /\ mRaw = << <<"">>, <<"">> >>
    /\ mDomain = <<"a", "com", "">>
    /\ ~mMatch

\* C27 as stated: the result for a name is the result for the same name in
\* lower case, for every rule set.
C27_MatchIgnoresCase ==
    mpc = "checked" => mMatch = HasMatchedRule(mRules, ToLower(mDomain))

\* C28: isPrivateIP is true exactly for the IPv4 addresses 10.x.x.x,
\* 172.16.x.x to 172.31.x.x and 192.168.x.x and the IPv6 addresses whose first
\* byte is fc or fd; it is false for every other address, fe80::/10 and the
\* nil address among them.
C28_PrivateExactlyTheRanges ==
    ipc = "checked" =>
        /\ ipPrivate <=>
              \/ /\ ipIn.fam = 4
                 /\ \/ ipIn.b1 = 10
                    \/ ipIn.b1 = 172 /\ ipIn.b2 \in 16..31
                    \/ ipIn.b1 = 192 /\ ipIn.b2 = 168
              \/ ipIn.fam = 6 /\ ipIn.b1 \in {252, 253}
        /\ (ipIn.fam = 6 /\ ipIn.b1 = 254 /\ ipIn.b2 \in 128..191) => ~ipPrivate
        /\ ipIn = NoAddr => ~ipPrivate

\* C28 witness: 172.31.x.x, the last of the second range, was found private.
C28_Witness ==
    /\ ipc = "checked"
    /\ ipIn = Addr(4, 172, 31)
    /\ ipPrivate

\* The upstreams whose response Fullest keeps, by what they returned.
keptByResponse == {j \in DOMAIN exchanged : passed(j)}

\* The answers of the kept responses of the upstreams j..n, in the order of
\* the upstreams.
RECURSIVE answersFrom(_, _)
answersFrom(j, n) ==
    IF j > n THEN <<>>
    ELSE (IF j \in keptByResponse THEN exchanged[j].msg.Answer ELSE <<>>)
            \o answersFrom(j + 1, n)

\* C29: under Fullest the result vector holds, at every moment, at the place
\* of each upstream the response that upstream returned if it is kept and
\* nothing otherwise, and the reply is the kept response of the first such
\* upstream in the order of the configuration, with the deduplicated answers
\* of all kept responses in that order: both are determined by which
\* upstream returned what, not by the order of the arrivals.
C29_FullestMergeIgnoresArrivalOrder ==
    (strategy = StrategyFullest /\ pc # "start") =>
        /\ \A j \in DOMAIN msgs :
              msgs[j] = IF j \in keptByResponse THEN exchanged[j].msg
                        ELSE NoMsg
        /\ (pc = "done" /\ keptByResponse # {}) =>
              LET first == CHOOSE j \in keptByResponse :
                               \A k \in keptByResponse : j <= k
              IN  resp = SetReply(
                      [exchanged[first].msg EXCEPT
                          !.Answer = uniqueAnswer(
                                         answersFrom(1, Len(exchanged)))],
                      req)

\* C29 witness: Fullest replied after keeping the responses of two upstreams
\* with different answers, a third upstream having failed; the reply holds
\* both answers, the one of the upstream configured first in front.
C29_Witness ==
    /\ strategy = StrategyFullest
    /\ pc = "done"
    /\ Cardinality(keptByResponse) = 2
    /\ \E j, k \in keptByResponse :
          /\ j < k
          /\ exchanged[j].msg.Answer # exchanged[k].msg.Answer
          /\ resp.Answer = exchanged[j].msg.Answer \o exchanged[k].msg.Answer
    /\ \E j \in DOMAIN exchanged : exchanged[j].err

\* The calls that hold a connection: borrowed and not handed back yet.
holding ==
    {p \in DOMAIN calls :
        calls[p].borrowed /\ calls[p].released + calls[p].discarded = 0}

\* C30: a call never releases and discards, nor hands back twice; a call
\* that borrowed a connection and has returned handed it back exactly once,
\* released when write and read both succeeded and discarded when one of
\* them failed; a call that got no connection hands none back; the pool
\* counts as active exactly the connections of the calls that hold one.
C30_BorrowedHandedBackOnce ==
    /\ \A p \in DOMAIN calls :
          /\ calls[p].released + calls[p].discarded <= 1
          /\ ~calls[p].borrowed =>
                calls[p].released + calls[p].discarded = 0
          /\ (calls[p].pc = "returned" /\ calls[p].borrowed) =>
                /\ calls[p].released + calls[p].discarded = 1
                /\ calls[p].released = 1 <=>
                      (~calls[p].werr /\ ~calls[p].rerr)
    /\ poolActive = Cardinality(holding)

\* C30 witness: three calls have returned, one after a clean exchange with
\* its connection released, one after a failed read and one after a failed
\* write with their connections discarded; no connection is borrowed any
\* more and one is idle in the pool.
C30_Witness ==
    /\ \A p \in DOMAIN calls : calls[p].pc = "returned"
    /\ \E p \in DOMAIN calls : calls[p].released = 1 /\ ~calls[p].err
    /\ \E p \in DOMAIN calls : calls[p].discarded = 1 /\ calls[p].rerr
    /\ \E p \in DOMAIN calls : calls[p].discarded = 1 /\ calls[p].werr
    /\ poolActive = 0
    /\ poolIdle = 1

\* C31: resolving an upstream's host through the bootstrap handler starts no
\* further lookup: every server of the bootstrap handler has a literal IP as
\* host and no callback, no lookup is ever made on behalf of such a server,
\* so lookups do not nest, and one lookup sends its question to each server
\* of the bootstrap handler at most once.
C31_BootstrapLookupDoesNotRecurse ==
    /\ "bootstrap" \in bHandlers =>
          \A j \in DOMAIN bBoot :
              ParseIP(bBoot[j].host) /\ bBoot[j].bootstrap = "nil"
    /\ Len(lookups) <= 1
    /\ \A k \in DOMAIN lookups :
          /\ lookups[k].by[1] = "upstream"
          /\ \A j \in DOMAIN bBoot : lookups[k].sent[j] <= 1

\* C31 witness: the lookup of the name of a tcp-tls upstream has sent its
\* question to both servers of the bootstrap handler, one over udp and one
\* over tcp, whose dial resolved nothing.
C31_Witness ==
    /\ Len(lookups) = 1
    /\ lookups[1].host = "dns.example"
    /\ bUps[lookups[1].by[2]].protocol = "tcp-tls"
    /\ Len(bBoot) = 2
    /\ bBoot[1].protocol = "udp" /\ lookups[1].sent[1] = 1
    /\ bBoot[2].protocol = "tcp" /\ lookups[1].sent[2] = 1

\* An upstream entry of the config that is non-primary over udp, or primary
\* with use_socks, or has use_socks while no SOCKS proxy is configured.
refused(u) ==
    \/ ~u.IsPrimary /\ u.protocol = "udp"
    \/ u.IsPrimary /\ u.UseSocks
    \/ u.UseSocks /\ bCfg.SocksProxy = ""

\* C32: when some upstream of the config is non-primary with scheme udp, or
\* primary with use_socks, or has use_socks while no SOCKS proxy is
\* configured, ReadInConfig returns an error and no handler is built.
C32_RefusedUpstreamFailsLoad ==
    (/\ bpc \in {"read", "panic", "serving"}
     /\ \E i \in DOMAIN bCfg.Upstreams : refused(bCfg.Upstreams[i]))
        => bErr # "" /\ bHandlers = {} /\ bpc # "serving"

\* C32 witness: the process panicked on a config whose first upstream is in
\* order and whose second, non-primary over tcp-tls, has use_socks while no
\* proxy is configured.
C32_Witness ==
    /\ bpc = "panic"
    /\ bCfg.SocksProxy = ""
    /\ Len(bCfg.Upstreams) = 2
    /\ ~refused(bCfg.Upstreams[1])
    /\ bCfg.Upstreams[2] = UpCfg(FALSE, TRUE, "tcp-tls", "dns.example")
    /\ bErr = "socks not configured"
    /\ bHandlers = {}

\* Credentials are configured: a user name and a password.
credentials == dSrv.username # "" /\ dSrv.password # ""

\* The request passed Basic auth.
passedAuth == dReq.auth = <<dSrv.username, dSrv.password>>

\* The dns parameter base64url-decodes and unpacks to a DNS message.
decodes == dReq.dns \in {"cXVlcnk", "bm9xdWVzdGlvbg"}

\* C33: the DoH endpoint calls the pipeline at most once, and only for a
\* request that passed Basic auth (when credentials are configured), has
\* Accept: application/dns-message and a dns parameter that decodes and
\* unpacks; a request that fails the first of these tests is answered 401,
\* one that fails the second 415, one that fails the third 400, without a
\* call; and a nil from the pipeline is answered 500.
C33_DohGatesThePipeline ==
    dpc = "done" =>
        LET authOk == credentials => passedAuth
            acceptOk == dReq.accept = "application/dns-message"
        IN  /\ Len(dInvoked) <= 1
            /\ Len(dInvoked) = 1 <=> authOk /\ acceptOk /\ decodes
            /\ ~authOk => dStatus = 401
            /\ authOk /\ ~acceptOk => dStatus = 415
            /\ authOk /\ acceptOk /\ ~decodes => dStatus = 400
            /\ dInvoked = <<"nil">> => dStatus = 500

\* C33 witness: with credentials configured, a request with the right
\* credentials and media type and a well-formed query reached the pipeline,
\* which returned nil, and was answered 500.
C33_Witness ==
    /\ dpc = "done"
    /\ credentials
    /\ passedAuth
    /\ dReq.accept = "application/dns-message"
    /\ dReq.dns = "cXVlcnk"
    /\ dInvoked = <<"nil">>
    /\ dStatus = 500

\* C34: deduplication is idempotent: for every record list xs,
\* uniqueAnswer(uniqueAnswer(xs)) equals uniqueAnswer(xs).
C34_DedupIdempotent == upc = "checked" => uTwice = uOnce

\* C34 witness: a list of three records with the same owner, type and
\* address, one of them with another TTL, was reduced to its first record.
C34_Witness ==
    /\ upc = "checked"
    /\ uIn = <<RRTtl(NameBing, "A", "1.0.0.1", 300),
               RRTtl(NameBing, "A", "1.0.0.1", 60),
               RRTtl(NameBing, "A", "1.0.0.1", 300)>>
    /\ uOnce = <<RRTtl(NameBing, "A", "1.0.0.1", 300)>>
    /\ uTwice = uOnce

\* The race of Fastest or AnyResult ended early: some arrival ended it
\* while another upstream had not returned.
endedEarly ==
    /\ \E j \in Idx : exchanged[j].fired
    /\ \E k \in Idx : ~exchanged[k].returned \/ exchanged[k].late

\* C35: under Fastest, whenever the race ended before every matched
\* upstream had returned, some primary upstream had returned by then;
\* answers of freedom upstreams alone never end the race early.
C35_EarlyExitNeedsPrimary ==
    (strategy = StrategyFastest /\ endedEarly)
        => \E p \in Idx : /\ matched[p].IsPrimary
                          /\ exchanged[p].returned
                          /\ ~exchanged[p].late

\* C35 witness: a freedom upstream returned a valid message and the race
\* went on; the arrival of a primary ended it with an upstream pending.
C35_Witness ==
    /\ strategy = StrategyFastest
    /\ \E p \in Idx : matched[p].IsPrimary /\ exchanged[p].fired
    /\ \E k \in Idx : /\ ~matched[k].IsPrimary
                      /\ passed(k)
                      /\ ~exchanged[k].late
                      /\ ~exchanged[k].fired
    /\ \E l \in Idx : ~exchanged[l].returned

\* The arrivals that called wg.Done.
firedArrivals == {j \in Idx : exchanged[j].fired}

\* C38: in Fastest and AnyResult, a race with at least one upstream
\* releases the latch exactly once, whatever the arrival order: at most one
\* arrival calls wg.Done, the counter is 1 before it and 0 after it, never
\* below, that arrival is not a straggler, and once every upstream has
\* returned one arrival has called it.
C38_LatchReleasedOnce ==
    (/\ strategy \in {StrategyFastest, StrategyAnyResult}
     /\ Len(matched) > 0)
        => /\ Cardinality(firedArrivals) <= 1
           /\ wg = 1 - Cardinality(firedArrivals)
           /\ \A j \in firedArrivals : ~exchanged[j].late
           /\ (\A j \in Idx : exchanged[j].returned)
                 => Cardinality(firedArrivals) = 1

\* C38 witness: under AnyResult three upstreams returned: the first with an
\* error, the second without and ending the race, the third, also without
\* error, as a straggler; the latch is at 0.
C38_Witness ==
    /\ strategy = StrategyAnyResult
    /\ Len(matched) = 3
    /\ \E a, b, c \in Idx :
          /\ exchanged[a].returned /\ exchanged[a].err
          /\ ~exchanged[a].late /\ ~exchanged[a].fired
          /\ exchanged[b].fired /\ ~exchanged[b].err
          /\ exchanged[c].late /\ ~exchanged[c].err
    /\ wg = 0

\* C36 as stated: the rcode of the reply returned on a cache miss is the
\* rcode of the kept upstream message that was the base of the merge; an
\* NXDOMAIN of the selected upstream reaches the client as NXDOMAIN.
C36_ReplyRcodeIsBaseRcode ==
    (/\ last.done
     /\ last.served = "none"
     /\ last.exchanged
     /\ last.res.Rcode # "SERVFAIL")
        => last.resp.Rcode = last.res.Rcode

\* C40: a call answered from the cache, by fresh hit or by stale fallback,
\* leaves the store as it was: the stored message, its expiry and the time
\* until which the store keeps it are unchanged.
C40_ServingFromCacheWritesNothing ==
    [][(nReq' # nReq /\ last'.served \in {"fresh", "stale"})
          => cache' = cache]_vars

\* C40 witness: an entry whose expiry has passed was served as stale
\* fallback and is still in the store as it was written, with the expiry
\* and the store-level lifetime of its Set.
C40_Witness ==
    /\ last.served = "stale"
    /\ last.held.written
    /\ last.held.Expires < last.at
    /\ cache[last.key] = last.held
    /\ last.held.until = WholeSeconds(last.held.at) + 60 + 3600

\* Whether the question name of r matches the blacklist, names compared
\* without regard to letter case.
blacklisted(r) ==
    /\ Len(r.Question) > 0
    /\ HasMatchedRule(blacklist, ToLower(GetDomainNameFromDnsMsg(r)))

\* Whether m holds an A or AAAA record with an address of the primary CIDR
\* set that is not in a private range.
holdsPrimaryAddress(m) ==
    \E rr \in sectionRRs(m) :
        /\ rr.Rrtype \in {"A", "AAAA"}
        /\ rr.Data \in ipRanger
        /\ rr.Data \notin PrivateIPs

\* C37 as stated: under Fullest and Fastest no reply to a request whose
\* question name matches the blacklist, whether built on a miss, served
\* from a fresh entry or served as stale fallback, holds an A or AAAA record
\* with a non-private address of the primary CIDR set.
C37_BlacklistedNeverPrimaryAddress ==
    (last.done /\ ~last.resp.nil /\ blacklisted(last.req))
        => ~holdsPrimaryAddress(last.resp)

\* The same for the names that match the blacklist letter for letter.
matchedLetterForLetterKeptOff ==
    (/\ last.done
     /\ ~last.resp.nil
     /\ Len(last.req.Question) > 0
     /\ HasMatchedRule(blacklist, GetDomainNameFromDnsMsg(last.req)))
        => ~holdsPrimaryAddress(last.resp)

\* C39 as stated: a request without question gets a reply message from a
\* handler with a cache.
C39_EmptyQuestionStillAnswered ==
    (last.done /\ Len(last.req.Question) = 0) => ~last.resp.nil

====
